---- MODULE Spec2Model ----
(***************************************************************************)
(* The approval coordination daemon of claude-hooks-slack-approval         *)
(* (src/src/server.ts), as a state machine.                                *)
(*                                                                         *)
(* The daemon is a single-threaded Node.js event loop.  Every handler runs *)
(* without interruption from one `await` to the next, so each action below *)
(* is one such run-to-suspension segment of one handler; a handler that    *)
(* is suspended on an await is an entry of `tasks`.  PendingRequest        *)
(* objects live on the JavaScript heap: the Map pendingRequests holds      *)
(* references to them, and a suspended handler keeps the reference it      *)
(* looked up even after the Map entry was deleted.  `heap` is that heap,   *)
(* `pendingRequests` the key set of the Map.                               *)
(***************************************************************************)
EXTENDS Integers, Sequences, FiniteSets, TLC

(***************************************************************************)
(* Bounds of the model.                                                    *)
(***************************************************************************)
\* client connections accepted by the gateway in one run
MaxConn == 3
\* request ids generateRequestId hands out in one run
MaxIds == 2
\* Slack event handlers (button clicks, reactions, messages) running at once
MaxSignals == 2
\* advances of the wall clock in one run
MaxTicks == 1

(***************************************************************************)
(* Program constants.                                                      *)
(***************************************************************************)
\* server.ts:34  const DEDUP_WINDOW_MS = 30000
DEDUP_WINDOW_MS == 30000
\* server.ts:1122  const twoHours = 2 * 60 * 60 * 1000
twoHours == 7200000
\* server.ts:1143  setInterval(..., 60 * 1000)
SWEEP_INTERVAL_MS == 60000

\* server.ts:11  the one configured destination; result.channel of a post
SLACK_CHANNEL_ID == "C0"

Conns == 1 .. MaxConn

\* the `null` of PendingRequest.socket, and the `undefined` of slackTs
NoSocket == 0
NoTs == 0
NoChannel == "undefined"

(***************************************************************************)
(* Request payloads.  A JSON object is the sequence of its members in      *)
(* insertion order; a member is [k, v]; a value is a string, a nested      *)
(* object or the questions array of AskUserQuestion.                       *)
(***************************************************************************)
StrVal(s) == [t |-> "s", s |-> s, o |-> <<>>, q |-> <<>>]
ObjVal(o) == [t |-> "o", s |-> "", o |-> o, q |-> <<>>]
QuestionsVal(q) == [t |-> "q", s |-> "", o |-> <<>>, q |-> q]
Member(k, v) == [k |-> k, v |-> v]

Keys(obj) == {obj[i].k : i \in DOMAIN obj}
Lookup(obj, k) == obj[CHOOSE i \in DOMAIN obj : obj[i].k = k].v

\* the keys that occur in the payloads of this model, in the order
\* Array.prototype.sort() gives them (UTF-16 code unit order)
KeyOrder == <<"command", "description", "env", "questions", "timeout">>

\* utils.ts:66  Object.keys(toolInput).sort()
SortedKeys(obj) == SelectSeq(KeyOrder, LAMBDA k : k \in Keys(obj))

RECURSIVE JSONStringifyMembers(_, _, _)
RECURSIVE JSONStringifyValue(_, _)
\* JSON.stringify(value, allow) with an array replacer: at EVERY nesting
\* level only the properties named in `allow` are serialized, in the order of
\* `allow`.  A string is quoted; array elements are not filtered by index.
JSONStringifyValue(v, allow) ==
    IF v.t = "s" THEN <<"\"", v.s, "\"">>
    ELSE IF v.t = "o" THEN <<"{">> \o JSONStringifyMembers(v.o, allow, allow) \o <<"}">>
    ELSE <<"[">> \o [i \in 1 .. Len(v.q) |-> "{}"] \o <<"]">>

\* the members of `obj` that `todo` (a suffix of `allow`) names, comma-joined
JSONStringifyMembers(obj, todo, allow) ==
    IF todo = <<>> THEN <<>>
    ELSE LET k == Head(todo)
             rest == JSONStringifyMembers(obj, Tail(todo), allow)
         IN  IF k \notin Keys(obj) THEN rest
             ELSE LET m == <<"\"", k, "\"", ":">> \o JSONStringifyValue(Lookup(obj, k), allow)
                  IN  IF rest = <<>> THEN m ELSE m \o <<",">> \o rest

\* a hash that serializes the keys in the order the object lists them
createRequestHashUnsorted(toolName, toolInput) ==
    <<toolName, ":">>
    \o JSONStringifyValue(ObjVal(toolInput), [i \in DOMAIN toolInput |-> toolInput[i].k])

\* utils.ts:65-68
createRequestHash(toolName, toolInput) ==
    <<toolName, ":">> \o JSONStringifyValue(ObjVal(toolInput), SortedKeys(toolInput))

(***************************************************************************)
(* Requests as the gateway hands them to handleRequest.  `keys` is the set *)
(* of properties the decoded object has ('tool_name' in request).          *)
(***************************************************************************)
Question(text, options, multi) == [question |-> text, options |-> options, multiSelect |-> multi]

PermissionRequest(sessionId, toolName, toolInput) ==
    [type |-> "permission_request", keys |-> {"type", "tool_name", "tool_input", "session_id"},
     tool_name |-> toolName, tool_input |-> toolInput, session_id |-> sessionId,
     questions |-> <<>>]

\* the PreToolUse hook input of the AskUserQuestion tool
AskUserQuestionRequest(sessionId, questions) ==
    [type |-> "pre_tool_use", keys |-> {"type", "tool_name", "tool_input", "session_id"},
     tool_name |-> "AskUserQuestion",
     tool_input |-> <<Member("questions", QuestionsVal(questions))>>,
     session_id |-> sessionId, questions |-> <<>>]

\* utils.ts:127-131  the UserQuestionRequest wire shape
UserQuestionRequest(sessionId, questions) ==
    [type |-> "user_question", keys |-> {"type", "session_id", "questions"},
     tool_name |-> "", tool_input |-> <<>>, session_id |-> sessionId,
     questions |-> questions]

\* server.ts:500-505
isQuestionRequest(request) ==
    \/ "tool_name" \in request.keys /\ request.tool_name = "AskUserQuestion"
    \/ request.type = "user_question"

\* server.ts:510-519
getQuestions(request) ==
    IF "questions" \in request.keys THEN request.questions
    ELSE IF "tool_input" \in request.keys
         THEN IF "questions" \in Keys(request.tool_input)
              THEN Lookup(request.tool_input, "questions").q
              ELSE <<>>
         ELSE <<>>

\* server.ts:956-964  the dedup fingerprint of a request
DedupHash(request) ==
    IF isQuestionRequest(request)
    THEN <<"q", ":", request.session_id, ":">>
         \o [i \in 1 .. Len(getQuestions(request)) |-> getQuestions(request)[i].question]
    ELSE <<"p", ":", request.session_id, ":">>
         \o createRequestHash(request.tool_name, request.tool_input)

\* the session-cache fingerprint (server.ts:998, 539, 620, 718)
Fingerprint(request) == createRequestHash(request.tool_name, request.tool_input)

(***************************************************************************)
(* The requests the clients of this model send.                            *)
(***************************************************************************)
InputLs == <<Member("command", StrVal("ls"))>>
Q1 == Question("Which?", <<"A", "B">>, FALSE)

Requests ==
    { PermissionRequest("s1", "Bash", InputLs),
      PermissionRequest("s2", "Bash", InputLs),
      AskUserQuestionRequest("s1", <<Q1>>) }

Sessions == {r.session_id : r \in Requests}


(***************************************************************************)
(* Reply lines.  A line is JSON.stringify of a literal whose keys are      *)
(* written in a fixed order, so two lines are byte-identical exactly when  *)
(* the same keys carry the same values; "-" marks a key that is absent.    *)
(***************************************************************************)
NoAnswers == <<>>

\* utils.ts:135-143  {hookSpecificOutput:{hookEventName, decision:{behavior, message?}}}
PermissionRequestOutput(behavior, message) ==
    [hookEventName |-> "PermissionRequest", decision |-> behavior, message |-> message,
     reason |-> "-", updatedInput |-> FALSE, answers |-> NoAnswers]

\* utils.ts:146-153  {hookSpecificOutput:{hookEventName, permissionDecision, ...}}
PreToolUseOutput(decision, reason, updatedInput, answers) ==
    [hookEventName |-> "PreToolUse", decision |-> decision, message |-> "-",
     reason |-> reason, updatedInput |-> updatedInput, answers |-> answers]

\* socket.ts:182  {decision:'deny'}
FallbackDeny ==
    [hookEventName |-> "-", decision |-> "deny", message |-> "-",
     reason |-> "-", updatedInput |-> FALSE, answers |-> NoAnswers]

\* server.ts:1003-1010  cacheResponse
cacheResponse == PermissionRequestOutput("allow", "-")

\* server.ts:1036-1042  emptyResponse
emptyResponse == PreToolUseOutput("allow", "No questions to answer", FALSE, NoAnswers)

(***************************************************************************)
(* Answers of a question request: pending.answers maps the question index  *)
(* to a label (single select, custom text) or to an array of labels.       *)
(* Here it is a sequence over the questions; "none" is a missing key.      *)
(***************************************************************************)
Unanswered == [kind |-> "none", labels |-> <<>>]
Single(label) == [kind |-> "single", labels |-> <<label>>]
Multi(labels) == [kind |-> "multi", labels |-> labels]

RECURSIVE Join(_)
\* Array.prototype.join(', ')
Join(labels) ==
    IF Len(labels) <= 1 THEN labels
    ELSE <<Head(labels), ", ">> \o Join(Tail(labels))

\* server.ts:420-429  the answers keyed by question text, in index order;
\* an index with no question in tool_input.questions is skipped
questionKeyedAnswers(questions, answers) ==
    LET idx == SelectSeq([i \in 1 .. Len(answers) |-> i],
                         LAMBDA i : answers[i].kind # "none" /\ i <= Len(questions))
    IN  [j \in 1 .. Len(idx) |->
            [key |-> questions[idx[j]].question, value |-> Join(answers[idx[j]].labels)]]

\* server.ts:414-415: request.tool_input is undefined for a request that
\* has no tool_input property, and reading .questions of it throws
buildHookOutputThrows(pending, decision, hasAnswers) ==
    /\ pending.isQuestion
    /\ hasAnswers /\ decision = "allow"
    /\ "tool_input" \notin pending.request.keys

\* a reply builder that does not look at the kind of the request
buildHookOutputIgnoringKind(pending, decision, hasAnswers, answers) ==
    PermissionRequestOutput(decision, IF decision = "deny" THEN "Denied via Slack" ELSE "-")

\* server.ts:401-455 (the value returned when it does not throw)
buildHookOutput(pending, decision, hasAnswers, answers) ==
    IF pending.isQuestion
    THEN IF hasAnswers /\ decision = "allow"
         THEN PreToolUseOutput(decision, "Approved via Slack", TRUE,
                  questionKeyedAnswers(
                      IF "questions" \in Keys(pending.request.tool_input)
                      THEN Lookup(pending.request.tool_input, "questions").q ELSE <<>>,
                      answers))
         ELSE PreToolUseOutput(decision,
                  IF decision = "allow" THEN "Approved via Slack" ELSE "Denied via Slack",
                  FALSE, NoAnswers)
    ELSE PermissionRequestOutput(decision, IF decision = "deny" THEN "Denied via Slack" ELSE "-")

(***************************************************************************)
(* State.                                                                  *)
(***************************************************************************)
VARIABLES
    now,                 \* Date.now(), in ms since the daemon started
    ticks,               \* clock advances so far
    lastSweep,           \* when the setInterval callback last ran
    sock,                \* per connection: "idle", "open", "ended" (by the daemon),
                         \* "closed" (by the peer, before the daemon ended it)
    buffer,              \* socket.ts:166, per connection: the bytes not yet consumed
    onRequestCalls,      \* per connection: the calls of onRequest (socket.ts:179)
    wire,                \* per connection: the reply lines written to it
    closeListeners,      \* per connection: request ids with a 'close' listener
    nextId,              \* the next id generateRequestId returns
    heap,                \* id -> PendingRequest object
    pendingRequests,     \* server.ts:24, the ids in the Map
    tsToPendingId,       \* server.ts:27, message ts -> request id
    sessionApprovals,    \* server.ts:30, session id -> approved fingerprints
    recentRequestHashes, \* server.ts:33, dedup hash -> {requestId, timestamp}
    tasks,               \* handler runs suspended on an await
    posted,              \* Slack side: ids whose prompt was posted
    origin,              \* history: how handleRequest treated each connection
    approvedBy,          \* history: ids an approve signal was recorded for
    timeoutTried,        \* history: ids whose prompt a timed-out update was sent for
    dropped,             \* history: the request a dropped signal last named (0: none)
    proc,                \* the daemon process: whether it runs, and its shutdown runs
    hook,                \* one run of the hook client (hook.ts) and what surrounds it
    endedSessions,       \* the sessions of the agent that have ended
    launch               \* launchers, the daemons they spawn, and the two files

vars == <<now, ticks, lastSweep, sock, buffer, onRequestCalls, wire, closeListeners,
          nextId, heap, pendingRequests, tsToPendingId, sessionApprovals,
          recentRequestHashes, tasks, posted, origin, approvedBy, timeoutTried, dropped,
          proc, hook, endedSessions, launch>>

clockVars == <<now, ticks, lastSweep>>
histVars == <<approvedBy, timeoutTried, dropped>>
gatewayVars == <<buffer, onRequestCalls>>
envVars == <<proc, hook, endedSessions, launch>>

NoOrigin == [how |-> "none", id |-> 0, request |-> 0, at |-> 0]

\* a reply line that is no JSON, and no line at all
UnparsableLine ==
    [hookEventName |-> "unparsable", decision |-> "-", message |-> "-",
     reason |-> "-", updatedInput |-> FALSE, answers |-> NoAnswers]
NoLine ==
    [hookEventName |-> "none", decision |-> "-", message |-> "-",
     reason |-> "-", updatedInput |-> FALSE, answers |-> NoAnswers]

\* the hook client before it has read its arguments.  `elapsed` is
\* Date.now() - startTime of waitWithLockCheck, `locked` what isScreenLocked()
\* returns now, `contactedAt` the value of `elapsed` when the client turned
\* to the daemon (-1: not yet), `received` the line the daemon's reply
\* carried, `exitCode` -1 while the process runs.  From ensureServerRunning:
\* `markerFound` whether the PID file existed, `marker` its content, `alive`
\* the process ids that were running, `running` what getRunningServerPid
\* returned, `markerExists` whether the PID file is still there, `spawned`
\* whether a daemon was spawned
NoHook ==
    [pc |-> "start", kind |-> "-", delay |-> 0, checkLock |-> FALSE, elapsed |-> 0,
     locked |-> FALSE, lockObserved |-> FALSE, contactedAt |-> -1, stdout |-> <<>>,
     exitCode |-> -1, notify |-> "none", received |-> NoLine,
     markerFound |-> FALSE, marker |-> <<>>, markerExists |-> FALSE, alive |-> {},
     running |-> [pid |-> -1, null |-> TRUE, cleaned |-> FALSE], spawned |-> FALSE]

\* concurrent runs of ensureServerRunning
MaxLaunchers == 3
Launchers == 1 .. MaxLaunchers

\* no launcher has run, no daemon process exists, neither file exists.
\* `clients` is where each launcher is in ensureServerRunning; daemon d is
\* the process launcher d spawns, and d stands for its process id;
\* `pidFile` and `sockFile` name the daemon that wrote the PID file and the
\* daemon whose listening socket the socket path leads to (0: no file)
NoLaunch ==
    [clients |-> [k \in Launchers |-> "start"],
     daemons |-> [d \in Launchers |-> "none"],
     pidFile |-> 0, sockFile |-> 0]

Init ==
    /\ now = 0
    /\ ticks = 0
    /\ lastSweep = 0
    /\ sock = [c \in Conns |-> "idle"]
    /\ buffer = [c \in Conns |-> <<>>]
    /\ onRequestCalls = [c \in Conns |-> 0]
    /\ wire = [c \in Conns |-> <<>>]
    /\ closeListeners = [c \in Conns |-> {}]
    /\ nextId = 1
    /\ heap = <<>>
    /\ pendingRequests = {}
    /\ tsToPendingId = <<>>
    /\ sessionApprovals = [s \in Sessions |-> {}]
    /\ recentRequestHashes = <<>>
    /\ tasks = {}
    /\ posted = {}
    /\ origin = [c \in Conns |-> NoOrigin]
    /\ approvedBy = {}
    /\ timeoutTried = {}
    /\ dropped = 0
    /\ proc = [running |-> TRUE, shutdownCalls |-> 0, stopping |-> 0, files |-> TRUE]
    /\ hook = NoHook
    /\ endedSessions = {}
    /\ launch = NoLaunch

\* a Map with key k set to v
MapSet(m, k, v) == [x \in DOMAIN m \cup {k} |-> IF x = k THEN v ELSE m[x]]
\* a Map with key k deleted
MapDelete(m, k) == [x \in DOMAIN m \ {k} |-> m[x]]

\* socket.write(line) on every socket of S, then socket.end(): a socket
\* that is no longer writable takes no line
WriteAll(S, line) ==
    [c \in Conns |-> IF c \in S /\ sock[c] = "open" THEN Append(wire[c], line) ELSE wire[c]]
EndAll(S) ==
    [c \in Conns |-> IF c \in S /\ sock[c] = "open" THEN "ended" ELSE sock[c]]


(***************************************************************************)
(* handleRequest (server.ts:952-1117).                                     *)
(***************************************************************************)
\* a handler run suspended on an await: which handler, the await it is at
\* ("post": chat.postMessage, "update": chat.update), and the
\* locals it resumes with ("answer": a run of the option or the modal handler
\* that found the question complete, "confirm": a run of the confirm
\* handler).  `rank` is history: the number of Slack event
\* handler runs for the same request that were in flight when this one
\* started.  Two runs that agree on all of this are the same entry.
Task(kind, pc, id, conn, decision, rank) ==
    [kind |-> kind, pc |-> pc, id |-> id, conn |-> conn, decision |-> decision,
     rank |-> rank]

\* Slack's ts of the prompt posted for request id (one post per request)
TsOf(id) == id

\* the gateway accepts connections one at a time, in order; a run has
\* MaxConn connections while the clock stands still, one fewer once it moved
Accepts(c) ==
    /\ sock[c] = "idle"
    /\ \A d \in Conns : d < c => sock[d] # "idle"
    /\ c = MaxConn => ticks = 0

\* the window test with the comparison turned around
OutsideDedupWindow(timestamp) == now - timestamp > DEDUP_WINDOW_MS

\* a window test that still holds when exactly DEDUP_WINDOW_MS have passed
WithinDedupWindowInclusive(timestamp) == now - timestamp <= DEDUP_WINDOW_MS

\* server.ts:969  now - existing.timestamp < DEDUP_WINDOW_MS
WithinDedupWindow(timestamp) == now - timestamp < DEDUP_WINDOW_MS

\* a lookup that trusts the index entry without asking the registry
ExistingPendingUnchecked(request) ==
    LET h == DedupHash(request)
    IN  IF /\ h \in DOMAIN recentRequestHashes
           /\ WithinDedupWindow(recentRequestHashes[h].timestamp)
        THEN recentRequestHashes[h].requestId
        ELSE 0

\* server.ts:968-971  the pending request a duplicate attaches to (0: none)
ExistingPending(request) ==
    LET h == DedupHash(request)
    IN  IF /\ h \in DOMAIN recentRequestHashes
           /\ WithinDedupWindow(recentRequestHashes[h].timestamp)
           /\ recentRequestHashes[h].requestId \in pendingRequests
        THEN recentRequestHashes[h].requestId
        ELSE 0

\* an attach that clears pending.socket without keeping the original socket
AttachSocketForgetsOriginal(p, c) ==
    [p EXCEPT !.socket = NoSocket, !.additionalSockets = Append(@, c)]

\* server.ts:975-983
AttachSocket(p, c) ==
    [p EXCEPT !.socket = NoSocket,
              !.additionalSockets =
                  (IF p.socket # NoSocket THEN Append(@, p.socket) ELSE @) \o <<c>>]

\* a cache lookup under the dedup hash instead of the fingerprint
CacheHitByDedupHash(request) == DedupHash(request) \in sessionApprovals[request.session_id]

\* a cache lookup that forgets the session: the fingerprint is looked up in
\* every session's set
CacheHitAnySession(request) ==
    \E s \in Sessions : Fingerprint(request) \in sessionApprovals[s]

\* server.ts:999-1001  sessionCache?.has(hash)
CacheHit(request) == Fingerprint(request) \in sessionApprovals[request.session_id]

\* server.ts:1018-1024
NewPending(id, c, request) ==
    [id |-> id, socket |-> c, additionalSockets |-> <<>>, request |-> request,
     slackTs |-> NoTs, slackChannel |-> NoChannel, createdAt |-> now,
     isQuestion |-> isQuestionRequest(request), hasAnswers |-> FALSE,
     answers |-> [i \in 1 .. Len(getQuestions(request)) |-> Unanswered]]

Origin(how, id, request) == [how |-> how, id |-> id, request |-> request, at |-> now]

\* a gateway whose catch block writes the line and leaves the connection open
MalformedFrameStaysOpen(c) ==
    /\ Accepts(c)
    /\ wire' = [wire EXCEPT ![c] = Append(@, FallbackDeny)]
    /\ sock' = [sock EXCEPT ![c] = "open"]
    /\ origin' = [origin EXCEPT ![c] = Origin("malformed", 0, 0)]
    /\ UNCHANGED <<envVars, gatewayVars, clockVars, histVars, closeListeners, nextId, heap, pendingRequests,
                   tsToPendingId, sessionApprovals, recentRequestHashes, tasks, posted>>

\* socket.ts:177-184  the line is no JSON: JSON.parse throws, the gateway
\* answers {decision:'deny'} and ends the connection
MalformedFrame(c) ==
    /\ Accepts(c)
    /\ wire' = [wire EXCEPT ![c] = Append(@, FallbackDeny)]
    /\ sock' = [sock EXCEPT ![c] = "ended"]
    /\ origin' = [origin EXCEPT ![c] = Origin("malformed", 0, 0)]
    /\ UNCHANGED <<envVars, gatewayVars, clockVars, histVars, closeListeners, nextId, heap, pendingRequests,
                   tsToPendingId, sessionApprovals, recentRequestHashes, tasks, posted>>

\* a permission request that was sent without its tool_input property
NoInputRequest(sessionId, toolName) ==
    [type |-> "permission_request", keys |-> {"type", "tool_name", "session_id"},
     tool_name |-> toolName, tool_input |-> <<>>, session_id |-> sessionId,
     questions |-> <<>>]

\* server.ts:961-963, utils.ts:66: the dedup hash of a request that is no
\* question is computed first of all, and Object.keys(undefined) throws
handleRequestThrows(request) ==
    ~isQuestionRequest(request) /\ "tool_input" \notin request.keys

\* socket.ts:178-184  the line is JSON, but handleRequest throws before it
\* has changed anything: the gateway answers {decision:'deny'} and ends the
\* connection
HandleThrows(c, request) ==
    /\ Accepts(c)
    /\ handleRequestThrows(request)
    /\ onRequestCalls' = [onRequestCalls EXCEPT ![c] = @ + 1]
    /\ wire' = [wire EXCEPT ![c] = Append(@, FallbackDeny)]
    /\ sock' = [sock EXCEPT ![c] = "ended"]
    /\ origin' = [origin EXCEPT ![c] = Origin("threw", 0, request)]
    /\ UNCHANGED <<envVars, buffer, clockVars, histVars, closeListeners, nextId, heap,
                   pendingRequests, tsToPendingId, sessionApprovals, recentRequestHashes,
                   tasks, posted>>

\* server.ts:966-986  a duplicate inside the window: attach and return
HandleDuplicate(c, request) ==
    LET e == ExistingPending(request)
    IN  /\ Accepts(c)
        /\ e # 0
        /\ heap' = [heap EXCEPT ![e] = AttachSocket(heap[e], c)]
        /\ sock' = [sock EXCEPT ![c] = "open"]
        /\ origin' = [origin EXCEPT ![c] = Origin("attach", e, request)]
        /\ onRequestCalls' = [onRequestCalls EXCEPT ![c] = @ + 1]
        /\ UNCHANGED <<envVars, buffer, clockVars, histVars, wire, closeListeners, nextId, pendingRequests,
                       tsToPendingId, sessionApprovals, recentRequestHashes, tasks,
                       posted>>

\* server.ts:988-1015  a permission request found in the session cache
HandleCacheHit(c, request) ==
    /\ Accepts(c)
    /\ nextId <= MaxIds
    /\ ExistingPending(request) = 0
    /\ ~isQuestionRequest(request)
    /\ CacheHit(request)
    /\ nextId' = nextId + 1
    /\ recentRequestHashes' = MapSet(recentRequestHashes, DedupHash(request),
                                     [requestId |-> nextId, timestamp |-> now])
    /\ wire' = [wire EXCEPT ![c] = Append(@, cacheResponse)]
    /\ sock' = [sock EXCEPT ![c] = "ended"]
    /\ origin' = [origin EXCEPT ![c] = Origin("cache", nextId, request)]
    /\ onRequestCalls' = [onRequestCalls EXCEPT ![c] = @ + 1]
    /\ UNCHANGED <<envVars, buffer, clockVars, histVars, closeListeners, heap, pendingRequests,
                   tsToPendingId, sessionApprovals, tasks, posted>>

\* server.ts:988-1069  a new request: registered, then chat.postMessage is
\* awaited (a question without questions is answered at once)
HandleNew(c, request) ==
    /\ Accepts(c)
    /\ nextId <= MaxIds
    /\ ExistingPending(request) = 0
    /\ isQuestionRequest(request) \/ ~CacheHit(request)
    /\ nextId' = nextId + 1
    /\ recentRequestHashes' = MapSet(recentRequestHashes, DedupHash(request),
                                     [requestId |-> nextId, timestamp |-> now])
    /\ heap' = MapSet(heap, nextId, NewPending(nextId, c, request))
    /\ IF isQuestionRequest(request) /\ getQuestions(request) = <<>>
       THEN /\ wire' = [wire EXCEPT ![c] = Append(@, emptyResponse)]
            /\ sock' = [sock EXCEPT ![c] = "ended"]
            /\ origin' = [origin EXCEPT ![c] = Origin("empty", nextId, request)]
            /\ UNCHANGED <<pendingRequests, tasks>>
       ELSE /\ pendingRequests' = pendingRequests \cup {nextId}
            /\ tasks' = tasks \cup {Task("handleRequest", "post", nextId, c, "-", 0)}
            /\ sock' = [sock EXCEPT ![c] = "open"]
            /\ origin' = [origin EXCEPT ![c] = Origin("new", nextId, request)]
            /\ UNCHANGED wire
    /\ onRequestCalls' = [onRequestCalls EXCEPT ![c] = @ + 1]
    /\ UNCHANGED <<envVars, buffer, clockVars, histVars, closeListeners, tsToPendingId,
                   sessionApprovals, posted>>

\* server.ts:1071-1077, 1089  chat.postMessage resolved: the ts is stored
\* and indexed, and only now the 'close' listener is registered
PublishOk(t) ==
    /\ t \in tasks /\ t.kind = "handleRequest"
    /\ heap' = [heap EXCEPT ![t.id].slackTs = TsOf(t.id),
                            ![t.id].slackChannel = SLACK_CHANNEL_ID]
    /\ tsToPendingId' = MapSet(tsToPendingId, TsOf(t.id), t.id)
    /\ posted' = posted \cup {t.id}
    /\ closeListeners' = [closeListeners EXCEPT ![t.conn] = @ \cup {t.id}]
    /\ tasks' = tasks \ {t}
    /\ UNCHANGED <<envVars, gatewayVars, clockVars, histVars, sock, wire, nextId, pendingRequests,
                   sessionApprovals, recentRequestHashes, origin>>

\* a publish failure that answers deny but leaves the entry in the Map
PublishFailKeepsEntry(t) ==
    /\ t \in tasks /\ t.kind = "handleRequest"
    /\ wire' = WriteAll({t.conn}, buildHookOutput(heap[t.id], "deny", FALSE, NoAnswers))
    /\ sock' = EndAll({t.conn})
    /\ closeListeners' = [closeListeners EXCEPT ![t.conn] = @ \cup {t.id}]
    /\ tasks' = tasks \ {t}
    /\ UNCHANGED <<envVars, gatewayVars, clockVars, histVars, nextId, heap, tsToPendingId, sessionApprovals,
                   recentRequestHashes, posted, origin, pendingRequests>>

\* server.ts:1078-1089  chat.postMessage rejected: deny on the socket of
\* this call, delete the entry; the 'close' listener is registered all the same
PublishFail(t) ==
    /\ t \in tasks /\ t.kind = "handleRequest"
    /\ wire' = WriteAll({t.conn}, buildHookOutput(heap[t.id], "deny", FALSE, NoAnswers))
    /\ sock' = EndAll({t.conn})
    /\ pendingRequests' = pendingRequests \ {t.id}
    /\ closeListeners' = [closeListeners EXCEPT ![t.conn] = @ \cup {t.id}]
    /\ tasks' = tasks \ {t}
    /\ UNCHANGED <<envVars, gatewayVars, clockVars, histVars, nextId, heap, tsToPendingId, sessionApprovals,
                   recentRequestHashes, posted, origin>>

\* server.ts:1089-1100  the socket's 'close' event: every listener
\* registered on it runs up to its await of chat.update.  The event of a
\* socket the daemon has ended is a step only where a listener still finds
\* its request; elsewhere the listeners return at once.
SocketClose(c) ==
    LET live == closeListeners[c] \cap pendingRequests
        upd == {id \in live : heap[id].slackTs # NoTs /\ heap[id].slackChannel # NoChannel}
    IN  /\ sock[c] = "open" \/ (sock[c] = "ended" /\ live # {})
        /\ sock' = [sock EXCEPT ![c] = IF @ = "open" THEN "closed" ELSE @]
        /\ closeListeners' = [closeListeners EXCEPT ![c] = {}]
        /\ tasks' = tasks \cup {Task("close", "update", id, c, "-", 0) : id \in upd}
        /\ timeoutTried' = timeoutTried \cup upd
        /\ pendingRequests' = pendingRequests \ (live \ upd)
        /\ UNCHANGED <<envVars, gatewayVars, clockVars, approvedBy, dropped, wire, nextId, heap, tsToPendingId,
                       sessionApprovals, recentRequestHashes, posted, origin>>

\* server.ts:1100-1111  the timed-out update settled, resolved or rejected
\* (the rejection is caught): the entry is deleted
CloseHandlerResume(t) ==
    /\ t \in tasks /\ t.kind = "close"
    /\ pendingRequests' = pendingRequests \ {t.id}
    /\ tasks' = tasks \ {t}
    /\ UNCHANGED <<envVars, gatewayVars, clockVars, histVars, sock, wire, closeListeners, nextId, heap,
                   tsToPendingId, sessionApprovals, recentRequestHashes, posted, origin>>

(***************************************************************************)
(* sendResponse (server.ts:460-495).                                       *)
(***************************************************************************)
\* the sockets a PendingRequest references
SocketsOf(p) ==
    (IF p.socket # NoSocket THEN {p.socket} ELSE {})
    \cup {p.additionalSockets[i] : i \in DOMAIN p.additionalSockets}

\* a reply that goes to the sockets of every pending request
SendTargetsOfAllPending(p) == UNION {SocketsOf(heap[id]) : id \in pendingRequests}

\* server.ts:465-488  the sockets the reply is written to
SendTargets(p) == SocketsOf(p)

\* the reply is written to and end() called on every socket of p, then p is
\* removed from tsToPendingId and pendingRequests; if buildHookOutput throws,
\* nothing of this happens and the exception leaves the calling handler
sendResponse(p, decision, hasAnswers, answers) ==
    IF buildHookOutputThrows(p, decision, hasAnswers)
    THEN UNCHANGED <<wire, sock, tsToPendingId, pendingRequests>>
    ELSE /\ wire' = WriteAll(SendTargets(p), buildHookOutput(p, decision, hasAnswers, answers))
         /\ sock' = EndAll(SendTargets(p))
         /\ tsToPendingId' = IF p.slackTs # NoTs THEN MapDelete(tsToPendingId, p.slackTs)
                             ELSE tsToPendingId
         /\ pendingRequests' = pendingRequests \ {p.id}

(***************************************************************************)
(* Slack events.  A button exists only in a posted approval prompt, a      *)
(* reaction or thread reply names the ts of a posted message; Slack may    *)
(* deliver any of them late, after the prompt was resolved.                *)
(***************************************************************************)
ApprovalPrompts == {id \in posted : ~heap[id].isQuestion}
QuestionPrompts == {id \in posted : heap[id].isQuestion}

\* the Slack event handler runs that are in flight
SignalTasks == {t \in tasks : t.kind \notin {"handleRequest", "close"}}
CanDeliver == Cardinality(SignalTasks) < MaxSignals
Rank(id) == Cardinality({t \in SignalTasks : t.id = id})

\* server.ts:618, 641
ApproveReactions == {"+1", "thumbsup", "white_check_mark", "heavy_check_mark"}
DenyReactions == {"-1", "thumbsdown", "x", "no_entry"}
\* server.ts:716, 739
ApproveTexts == {"ok", "approve", "yes", "y", "allow", "go"}
DenyTexts == {"no", "deny", "reject", "n", "stop", "cancel"}

\* the reactions and the (lower-cased, trimmed) texts users send here
Reactions == {"+1", "x", "eyes"}
Texts == {"ok", "no", "later"}
Channels == {SLACK_CHANNEL_ID, "D1"}

\* a reading of reactions that takes every reaction outside the approve set
\* for a denial
ReactionDecisionDefaultDeny(reaction) ==
    IF reaction \in ApproveReactions THEN "allow" ELSE "deny"

\* server.ts:618-641, 716-739  the decision a reaction or a text stands for
ReactionDecision(reaction) ==
    IF reaction \in ApproveReactions THEN "allow"
    ELSE IF reaction \in DenyReactions THEN "deny" ELSE "-"
TextDecision(text) ==
    IF text \in ApproveTexts THEN "allow"
    ELSE IF text \in DenyTexts THEN "deny" ELSE "-"

\* server.ts:538-543  sessionApprovals.get(session_id).add(hash)
CacheApproval(request) ==
    [sessionApprovals EXCEPT ![request.session_id] = @ \cup {Fingerprint(request)}]

\* a signal handler that records the session approval whatever the decision
BeginTerminalCachingAnyDecision(id, decision) ==
    /\ sessionApprovals' = CacheApproval(heap[id].request)
    /\ approvedBy' = IF decision = "allow" THEN approvedBy \cup {id} ELSE approvedBy
    /\ IF heap[id].slackTs # NoTs /\ heap[id].slackChannel # NoChannel
       THEN /\ tasks' = tasks \cup {Task("terminal", "update", id, 0, decision, Rank(id))}
            /\ UNCHANGED <<wire, sock, tsToPendingId, pendingRequests>>
       ELSE /\ tasks' = tasks
            /\ sendResponse(heap[id], decision, FALSE, NoAnswers)

\* server.ts:535-554, 617-635, 715-733: an approve signal found its request:
\* the approval is cached, then chat.update is awaited
\* server.ts:576-588, 641-651, 739-749: a deny signal awaits chat.update
BeginTerminal(id, decision) ==
    /\ sessionApprovals' = IF decision = "allow" THEN CacheApproval(heap[id].request)
                           ELSE sessionApprovals
    /\ approvedBy' = IF decision = "allow" THEN approvedBy \cup {id} ELSE approvedBy
    /\ IF heap[id].slackTs # NoTs /\ heap[id].slackChannel # NoChannel
       THEN /\ tasks' = tasks \cup {Task("terminal", "update", id, 0, decision, Rank(id))}
            /\ UNCHANGED <<wire, sock, tsToPendingId, pendingRequests>>
       ELSE /\ tasks' = tasks
            /\ sendResponse(heap[id], decision, FALSE, NoAnswers)

\* a click handler that does not look the request up in the Map: it goes on
\* with the PendingRequest object the button once stood for
ButtonClickedWithoutLookup(kind, id) ==
    LET decision == IF kind = "approve" THEN "allow" ELSE "deny"
    IN  /\ CanDeliver
        /\ id \in ApprovalPrompts
        /\ BeginTerminal(id, decision)
        /\ UNCHANGED <<envVars, gatewayVars, clockVars, timeoutTried, dropped, closeListeners, nextId, heap,
                       recentRequestHashes, posted, origin>>

\* server.ts:522-594  an Approve or Deny click.  The handler awaits ack()
\* before it has read anything, so its run starts, for the state, when ack()
\* has resolved: it looks the request up, and if it is gone the click is dropped
ButtonClicked(kind, id) ==
    LET decision == IF kind = "approve" THEN "allow" ELSE "deny"
    IN  /\ CanDeliver
        /\ id \in ApprovalPrompts
        /\ IF id \in pendingRequests
           THEN BeginTerminal(id, decision)
           ELSE UNCHANGED <<sessionApprovals, approvedBy, tasks, wire, sock, tsToPendingId,
                            pendingRequests>>
        /\ UNCHANGED <<envVars, gatewayVars, clockVars, timeoutTried, dropped, closeListeners, nextId, heap,
                       recentRequestHashes, posted, origin>>

\* a reaction handler without the question guard of server.ts:607-611
ReactionAddedToAnyPrompt(ts, reaction) ==
    LET id == IF ts \in DOMAIN tsToPendingId THEN tsToPendingId[ts] ELSE 0
        decision == ReactionDecision(reaction)
        found == id # 0 /\ id \in pendingRequests /\ decision # "-"
    IN  /\ CanDeliver
        /\ ts \in posted
        /\ IF found
           THEN BeginTerminal(id, decision)
           ELSE UNCHANGED <<sessionApprovals, approvedBy, tasks, wire, sock, tsToPendingId,
                            pendingRequests>>
        /\ UNCHANGED <<envVars, gatewayVars, clockVars, timeoutTried, dropped, closeListeners,
                       nextId, heap, recentRequestHashes, posted, origin>>

\* server.ts:597-656  reaction_added
ReactionAdded(ts, reaction) ==
    LET id == IF ts \in DOMAIN tsToPendingId THEN tsToPendingId[ts] ELSE 0
        decision == ReactionDecision(reaction)
        found == id # 0 /\ id \in pendingRequests /\ ~heap[id].isQuestion /\ decision # "-"
    IN  /\ CanDeliver
        /\ ts \in posted
        /\ IF found
           THEN BeginTerminal(id, decision)
           ELSE UNCHANGED <<sessionApprovals, approvedBy, tasks, wire, sock, tsToPendingId,
                            pendingRequests>>
        /\ UNCHANGED <<envVars, gatewayVars, clockVars, timeoutTried, dropped, closeListeners, nextId, heap,
                       recentRequestHashes, posted, origin>>

\* server.ts:687-693  the first entry of pendingRequests, in insertion
\* order, that was posted to the channel and is no question (0: none)
FirstPendingIn(channel) ==
    LET match == {id \in pendingRequests :
                      heap[id].slackChannel = channel /\ ~heap[id].isQuestion}
    IN  IF match = {} THEN 0 ELSE CHOOSE id \in match : \A other \in match : id <= other

\* server.ts:661-754  a message that is no bot message and no edit
MessageReceived(threadTs, channel, text) ==
    LET id == IF threadTs # NoTs
              THEN IF threadTs \in DOMAIN tsToPendingId THEN tsToPendingId[threadTs] ELSE 0
              ELSE FirstPendingIn(channel)
        decision == TextDecision(text)
        found == id # 0 /\ id \in pendingRequests /\ ~heap[id].isQuestion /\ decision # "-"
    IN  /\ CanDeliver
        /\ threadTs \in posted \cup {NoTs}
        /\ threadTs # NoTs => channel = SLACK_CHANNEL_ID
        /\ IF found
           THEN BeginTerminal(id, decision)
           ELSE UNCHANGED <<sessionApprovals, approvedBy, tasks, wire, sock, tsToPendingId,
                            pendingRequests>>
        /\ UNCHANGED <<envVars, gatewayVars, clockVars, timeoutTried, dropped, closeListeners, nextId, heap,
                       recentRequestHashes, posted, origin>>

\* server.ts:548-557, 582-591, 629-637, 645-653, 727-735, 743-751:
\* chat.update settled.  Resolved: sendResponse runs.  Rejected: the
\* exception leaves the handler, which ends there.
TerminalResume(t, ok) ==
    /\ t \in tasks /\ t.kind = "terminal" /\ t.pc = "update"
    /\ tasks' = tasks \ {t}
    /\ IF ok
       THEN sendResponse(heap[t.id], t.decision, FALSE, NoAnswers)
       ELSE UNCHANGED <<wire, sock, tsToPendingId, pendingRequests>>
    /\ UNCHANGED <<envVars, gatewayVars, clockVars, histVars, closeListeners, nextId, heap, sessionApprovals,
                   recentRequestHashes, posted, origin>>

(***************************************************************************)
(* Answers to a question (server.ts:757-947).  The prompt the daemon posts *)
(* for a question is a notification without buttons (server.ts:207-253),   *)
(* so these handlers run only for an interaction whose payload names the   *)
(* request: its id, a question index and an option of that question.  The  *)
(* payloads here are the ones buttons built from the request's own         *)
(* questions would carry.                                                  *)
(***************************************************************************)
\* server.ts:825-838  the answer of question qi after a click on `label`
\* (for a multi-select question the label is toggled in the array)
ClickedAnswer(question, answer, label) ==
    IF question.multiSelect
    THEN IF \E i \in DOMAIN answer.labels : answer.labels[i] = label
         THEN Multi(SelectSeq(answer.labels, LAMBDA l : l # label))
         ELSE Multi(Append(answer.labels, label))
    ELSE Single(label)

\* server.ts:827-832: the stored answer of a multi-select question is a
\* string (a custom text): push and splice are no functions of it
ToggleThrows(question, answer) == question.multiSelect /\ answer.kind = "single"

\* server.ts:841-847  allAnswered of the option handler
AllAnsweredByOption(questions, answers) ==
    \A i \in DOMAIN questions :
        IF questions[i].multiSelect
        THEN answers[i].kind = "multi" /\ answers[i].labels # <<>>
        ELSE answers[i].kind # "none" /\ answers[i].labels # <<"">>

\* server.ts:891-894  allAnswered of the modal handler: an array, empty or
\* not, is neither undefined nor ''
AllAnsweredByModal(questions, answers) ==
    \A i \in DOMAIN questions : answers[i].kind # "none" /\ answers[i].labels # <<"">>

\* server.ts:849  questions.some((q) => q.multiSelect)
SomeMultiSelect(questions) == \E i \in DOMAIN questions : questions[i].multiSelect

\* server.ts:851-862, 898-909, 933-944: the question is complete: chat.update
\* is awaited where the prompt is known, then sendResponse runs
BeginAnswered(p) ==
    IF p.slackTs # NoTs /\ p.slackChannel # NoChannel
    THEN /\ tasks' = tasks \cup {Task("answer", "update", p.id, 0, "allow", Rank(p.id))}
         /\ UNCHANGED <<wire, sock, tsToPendingId, pendingRequests>>
    ELSE /\ tasks' = tasks
         /\ sendResponse(p, "allow", TRUE, p.answers)

\* server.ts:757-866  a click on option oi of question qi
OptionClicked(id, qi, oi) ==
    LET p == heap[id]
        questions == getQuestions(p.request)
        answers == [p.answers EXCEPT ![qi] = ClickedAnswer(questions[qi], @, questions[qi].options[oi])]
        q == [p EXCEPT !.hasAnswers = TRUE, !.answers = answers]
    IN  /\ CanDeliver
        /\ id \in QuestionPrompts /\ id \in pendingRequests
        /\ qi \in DOMAIN questions /\ oi \in DOMAIN questions[qi].options
        /\ IF ToggleThrows(questions[qi], p.answers[qi])
           THEN /\ heap' = [heap EXCEPT ![id].hasAnswers = TRUE]
                /\ UNCHANGED <<tasks, wire, sock, tsToPendingId, pendingRequests>>
           ELSE /\ heap' = [heap EXCEPT ![id] = q]
                /\ IF AllAnsweredByOption(questions, answers) /\ ~SomeMultiSelect(questions)
                   THEN BeginAnswered(q)
                   ELSE UNCHANGED <<tasks, wire, sock, tsToPendingId, pendingRequests>>
        /\ UNCHANGED <<envVars, gatewayVars, clockVars, histVars, closeListeners, nextId,
                       sessionApprovals, recentRequestHashes, posted, origin>>

\* the custom answers users type: none (the field left empty) and one text
CustomAnswers == {"", "mine"}

\* server.ts:868-913  the modal of a click on "Other" (server.ts:779-816) is
\* submitted with a custom answer for question qi
ModalSubmitted(id, qi, customAnswer) ==
    LET p == heap[id]
        questions == getQuestions(p.request)
        answers == [p.answers EXCEPT ![qi] = Single(customAnswer)]
        q == [p EXCEPT !.hasAnswers = TRUE, !.answers = answers]
    IN  /\ CanDeliver
        /\ id \in QuestionPrompts /\ id \in pendingRequests
        /\ qi \in DOMAIN questions
        /\ heap' = [heap EXCEPT ![id] = q]
        /\ IF AllAnsweredByModal(questions, answers)
           THEN BeginAnswered(q)
           ELSE UNCHANGED <<tasks, wire, sock, tsToPendingId, pendingRequests>>
        /\ UNCHANGED <<envVars, gatewayVars, clockVars, histVars, closeListeners, nextId,
                       sessionApprovals, recentRequestHashes, posted, origin>>

\* server.ts:915-947  a click on the confirm button of a multi-select prompt
ConfirmClicked(id) ==
    LET p == heap[id]
    IN  /\ CanDeliver
        /\ id \in QuestionPrompts /\ id \in pendingRequests
        /\ IF p.slackTs # NoTs /\ p.slackChannel # NoChannel /\ p.hasAnswers
           THEN /\ tasks' = tasks \cup {Task("confirm", "update", id, 0, "allow", Rank(id))}
                /\ UNCHANGED <<wire, sock, tsToPendingId, pendingRequests>>
           ELSE /\ tasks' = tasks
                /\ sendResponse(p, "allow", TRUE, p.answers)
        /\ UNCHANGED <<envVars, gatewayVars, clockVars, histVars, closeListeners, nextId, heap,
                       sessionApprovals, recentRequestHashes, posted, origin>>

\* server.ts:853-862, 900-909, 935-944: chat.update settled.  Resolved:
\* sendResponse runs with pending.answers as it is by now.  Rejected: the
\* exception leaves the handler, which ends there.
AnswerResume(t, ok) ==
    /\ t \in tasks /\ t.kind \in {"answer", "confirm"} /\ t.pc = "update"
    /\ tasks' = tasks \ {t}
    /\ IF ok
       THEN sendResponse(heap[t.id], "allow", TRUE, heap[t.id].answers)
       ELSE UNCHANGED <<wire, sock, tsToPendingId, pendingRequests>>
    /\ UNCHANGED <<envVars, gatewayVars, clockVars, histVars, closeListeners, nextId, heap,
                   sessionApprovals, recentRequestHashes, posted, origin>>

\* the kinds of Slack events that name a request
SignalKinds == {"approve", "deny", "reaction", "reply", "option", "other_submit", "confirm"}

\* server.ts:528-533, 568-573, 600-605, 682-702, 769-773, 873-878, 922-927:
\* the handler finds no PendingRequest for the request its event names (by id
\* in a button value or modal metadata, by message ts in a reaction or thread
\* reply) and returns.  The run changes nothing of the program; `dropped`
\* records that it took place.
SignalDropped(kind, id) ==
    /\ CanDeliver
    /\ kind \in {"approve", "deny"} => id \in ApprovalPrompts
    /\ kind \in {"option", "other_submit", "confirm"} => id \in QuestionPrompts
    /\ id \in posted /\ id \notin pendingRequests
    /\ dropped' = id
    /\ UNCHANGED <<envVars, gatewayVars, clockVars, approvedBy, timeoutTried, sock, wire,
                   closeListeners, nextId, heap, pendingRequests, tsToPendingId,
                   sessionApprovals, recentRequestHashes, tasks, posted, origin>>

\* server.ts:607-611, 618-655, 704-709, 716-753: the reaction or message
\* handler finds the PendingRequest its event names and returns without
\* doing anything: the request is a question, or the reaction or the text x
\* is in neither vocabulary.  The run changes nothing of the program;
\* `dropped` records that it took place.
SignalIgnored(kind, id, x) ==
    /\ CanDeliver
    /\ id \in pendingRequests
    /\ TsOf(id) \in DOMAIN tsToPendingId /\ tsToPendingId[TsOf(id)] = id
    /\ \/ heap[id].isQuestion
       \/ kind = "reaction" /\ x \notin ApproveReactions \cup DenyReactions
       \/ kind = "reply" /\ x \notin ApproveTexts \cup DenyTexts
    /\ dropped' = id
    /\ UNCHANGED <<envVars, gatewayVars, clockVars, approvedBy, timeoutTried, sock, wire,
                   closeListeners, nextId, heap, pendingRequests, tsToPendingId,
                   sessionApprovals, recentRequestHashes, tasks, posted, origin>>

(***************************************************************************)
(* The periodic sweep (server.ts:1119-1143) and the clock.                 *)
(***************************************************************************)
\* a staleness test that spares a request none of whose connections is open
IsStaleWithOpenSocket(p) ==
    now - p.createdAt > twoHours /\ \E c \in SocketsOf(p) : sock[c] = "open"

\* server.ts:1125
IsStale(p) == now - p.createdAt > twoHours

\* server.ts:1139
IsOldHash(entry) == now - entry.timestamp > DEDUP_WINDOW_MS

Sweep ==
    LET stale == {id \in pendingRequests : IsStale(heap[id])}
        keep == {h \in DOMAIN recentRequestHashes : ~IsOldHash(recentRequestHashes[h])}
    IN  /\ now - lastSweep >= SWEEP_INTERVAL_MS
        /\ lastSweep' = now
        /\ sock' = EndAll(UNION {SocketsOf(heap[id]) : id \in stale})
        /\ pendingRequests' = pendingRequests \ stale
        /\ recentRequestHashes' = [h \in keep |-> recentRequestHashes[h]]
        /\ UNCHANGED <<envVars, gatewayVars, now, ticks, histVars, wire, closeListeners, nextId, heap,
                       tsToPendingId, sessionApprovals, tasks, posted, origin>>

\* the amounts of time that pass between two events of a run
TimeSteps == {DEDUP_WINDOW_MS - 1, DEDUP_WINDOW_MS, twoHours + 1}

\* Date.now() is read by handleRequest and by the sweep only, and the first
\* request is the origin of time: the clock advances where one of the two can
\* still observe it, in a run whose last connection has not arrived
Tick(d) ==
    /\ ticks < MaxTicks
    /\ nextId > 1
    /\ sock[MaxConn] = "idle"
    /\ d >= SWEEP_INTERVAL_MS \/ \E c \in Conns : c < MaxConn /\ sock[c] = "idle"
    /\ ticks' = ticks + 1
    /\ now' = now + d
    /\ UNCHANGED <<envVars, gatewayVars, lastSweep, histVars, sock, wire, closeListeners, nextId, heap,
                   pendingRequests, tsToPendingId, sessionApprovals, recentRequestHashes,
                   tasks, posted, origin>>

Next ==
    \/ \E c \in Conns : MalformedFrame(c)
    \/ \E c \in Conns, r \in Requests : HandleDuplicate(c, r)
    \/ \E c \in Conns, r \in Requests : HandleCacheHit(c, r)
    \/ \E c \in Conns, r \in Requests : HandleNew(c, r)
    \/ \E t \in tasks : PublishOk(t)
    \/ \E t \in tasks : PublishFail(t)
    \/ \E c \in Conns : SocketClose(c)
    \/ \E t \in tasks : CloseHandlerResume(t)
    \/ \E k \in {"approve", "deny"}, id \in posted : ButtonClicked(k, id)
    \/ \E ts \in posted, r \in Reactions : ReactionAdded(ts, r)
    \/ \E ts \in posted \cup {NoTs}, ch \in Channels, x \in Texts : MessageReceived(ts, ch, x)
    \/ \E t \in tasks, ok \in BOOLEAN : TerminalResume(t, ok)
    \/ Sweep
    \/ \E d \in TimeSteps : Tick(d)

Spec == Init /\ [][Next]_vars

(***************************************************************************)
(* SignalSpec: the daemon with the signals of every kind and a record of   *)
(* the dropped ones, for two connections of one session that carry a tool  *)
(* approval, a question, or a frame the gateway rejects.  A modal is       *)
(* submitted here for requests that are gone only; QuestionSpec has the    *)
(* submissions that find their request.                                    *)
(***************************************************************************)
\* client connections of a run of SignalSpec and of QuestionSpec
MaxSignalConn == 2

SignalConns == 1 .. MaxSignalConn

SignalRequests ==
    { PermissionRequest("s1", "Bash", InputLs),
      AskUserQuestionRequest("s1", <<Q1>>) }

ThrowingRequests == {NoInputRequest("s1", "Bash")}

\* the question and option indexes of the payloads
QuestionIndexes == 1 .. 2
OptionIndexes == 1 .. 2

\* the reactions and texts of a run of SignalSpec: one that approves, one
\* that denies
SignalReactions == {"+1", "x"}
SignalTexts == {"ok", "no"}

SignalNext ==
    \/ \E c \in SignalConns : MalformedFrame(c)
    \/ \E c \in SignalConns, r \in ThrowingRequests : HandleThrows(c, r)
    \/ \E c \in SignalConns, r \in SignalRequests : HandleDuplicate(c, r)
    \/ \E c \in SignalConns, r \in SignalRequests : HandleCacheHit(c, r)
    \/ \E c \in SignalConns, r \in SignalRequests : HandleNew(c, r)
    \/ \E t \in tasks : PublishOk(t)
    \/ \E t \in tasks : PublishFail(t)
    \/ \E c \in SignalConns : SocketClose(c)
    \/ \E t \in tasks : CloseHandlerResume(t)
    \/ \E k \in {"approve", "deny"}, id \in posted : ButtonClicked(k, id)
    \/ \E ts \in posted, r \in SignalReactions : ReactionAdded(ts, r)
    \/ \E ts \in posted \cup {NoTs}, x \in SignalTexts : MessageReceived(ts, SLACK_CHANNEL_ID, x)
    \/ \E t \in tasks, ok \in BOOLEAN : TerminalResume(t, ok)
    \/ \E id \in posted, qi \in QuestionIndexes, oi \in OptionIndexes : OptionClicked(id, qi, oi)
    \/ \E id \in posted : ConfirmClicked(id)
    \/ \E t \in tasks, ok \in BOOLEAN : AnswerResume(t, ok)
    \/ \E k \in SignalKinds, id \in posted : SignalDropped(k, id)
    \/ Sweep
    \/ Tick(twoHours + 1)

SignalSpec == Init /\ [][SignalNext]_vars

(***************************************************************************)
(* QuestionSpec: the answers to a question, for two connections that carry *)
(* a question of two single-select questions, in either wire shape, or a   *)
(* multi-select question.                                                  *)
(***************************************************************************)
Qa == Question("Colour?", <<"red", "blue">>, FALSE)
Qb == Question("Size?", <<"big">>, FALSE)
Qm == Question("Toppings?", <<"ham", "egg">>, TRUE)

QuestionRequests ==
    { AskUserQuestionRequest("s1", <<Qa, Qb>>),
      UserQuestionRequest("s1", <<Qa, Qb>>),
      AskUserQuestionRequest("s1", <<Qm>>) }

QuestionNext ==
    \/ \E c \in SignalConns, r \in QuestionRequests : HandleDuplicate(c, r)
    \/ \E c \in SignalConns, r \in QuestionRequests : HandleNew(c, r)
    \/ \E t \in tasks : PublishOk(t)
    \/ \E t \in tasks : PublishFail(t)
    \/ \E c \in SignalConns : SocketClose(c)
    \/ \E t \in tasks : CloseHandlerResume(t)
    \/ \E id \in posted, qi \in QuestionIndexes, oi \in OptionIndexes : OptionClicked(id, qi, oi)
    \/ \E id \in posted, qi \in QuestionIndexes, a \in CustomAnswers : ModalSubmitted(id, qi, a)
    \/ \E id \in posted : ConfirmClicked(id)
    \/ \E t \in tasks, ok \in BOOLEAN : AnswerResume(t, ok)

QuestionSpec == Init /\ [][QuestionNext]_vars

(***************************************************************************)
(* MatchSpec: approval matching, for two connections of one session that   *)
(* carry Bash requests whose tool_input differs in a top-level value or in *)
(* a value nested inside `env` only.                                       *)
(***************************************************************************)
InputEnv(command, foo) ==
    <<Member("command", StrVal(command)),
      Member("env", ObjVal(<<Member("FOO", StrVal(foo))>>))>>

MatchRequests ==
    { PermissionRequest("s1", "Bash", InputEnv("ls", "1")),
      PermissionRequest("s1", "Bash", InputEnv("ls", "2")),
      PermissionRequest("s1", "Bash", InputEnv("pwd", "1")) }

MatchNext ==
    \/ \E c \in SignalConns, r \in MatchRequests : HandleDuplicate(c, r)
    \/ \E c \in SignalConns, r \in MatchRequests : HandleCacheHit(c, r)
    \/ \E c \in SignalConns, r \in MatchRequests : HandleNew(c, r)
    \/ \E t \in tasks : PublishOk(t)
    \/ \E k \in {"approve", "deny"}, id \in posted : ButtonClicked(k, id)
    \/ \E t \in tasks, ok \in BOOLEAN : TerminalResume(t, ok)

MatchSpec == Init /\ [][MatchNext]_vars

(***************************************************************************)
(* GatewaySpec: the 'data' handler of the gateway (socket.ts:165-191) at   *)
(* the level of the bytes of two connections.  The clients send the bytes  *)
(* {, } and newline in chunks, so that the only line that is JSON is {},   *)
(* a request handleRequest throws on.                                      *)
(***************************************************************************)
\* the bytes one 'data' event carries at most, and the bytes a connection's
\* buffer holds at most
MaxChunk == 2
MaxBuffer == 3

GatewayBytes == {"{", "}", "\n"}
Chunks == UNION {[1 .. n -> GatewayBytes] : n \in 1 .. MaxChunk}

\* String.prototype.indexOf, counting from 1: 0 where JavaScript gives -1
indexOf(str, ch) ==
    IF \E i \in DOMAIN str : str[i] = ch
    THEN CHOOSE i \in DOMAIN str : str[i] = ch /\ \A j \in 1 .. i - 1 : str[j] # ch
    ELSE 0

\* socket.ts:178  JSON.parse(message) returns for the text {} only
JSONParses(message) == message = <<"{", "}">>

\* what {} decodes to: an object without properties
EmptyRequest ==
    [type |-> "undefined", keys |-> {}, tool_name |-> "undefined", tool_input |-> <<>>,
     session_id |-> "undefined", questions |-> <<>>]

\* socket.ts:168-186  one 'data' event.  The chunk is appended to the buffer;
\* if the buffer has a newline, the text before the first one is taken off
\* and parsed, and onRequest is called with the result: it throws, as
\* JSON.parse does on any other text, and the catch block writes
\* {decision:'deny'} and ends the socket.  What follows the first newline
\* stays in the buffer until the next event.  A write to a socket that was
\* ended writes nothing: the stream fails with "write after end" and is
\* destroyed.
SocketData(c, data) ==
    LET b == buffer[c] \o data
        newlineIndex == indexOf(b, "\n")
        message == SubSeq(b, 1, newlineIndex - 1)
    IN  /\ sock[c] # "closed"
        /\ sock[c] = "idle" => Accepts(c)
        /\ Len(b) <= MaxBuffer
        /\ IF newlineIndex = 0
           THEN /\ buffer' = [buffer EXCEPT ![c] = b]
                /\ sock' = [sock EXCEPT ![c] = IF @ = "idle" THEN "open" ELSE @]
                /\ UNCHANGED <<onRequestCalls, wire>>
           ELSE /\ buffer' = [buffer EXCEPT ![c] = SubSeq(b, newlineIndex + 1, Len(b))]
                /\ onRequestCalls' =
                       IF JSONParses(message) /\ handleRequestThrows(EmptyRequest)
                       THEN [onRequestCalls EXCEPT ![c] = @ + 1]
                       ELSE onRequestCalls
                /\ IF sock[c] = "ended"
                   THEN /\ sock' = [sock EXCEPT ![c] = "closed"]
                        /\ wire' = wire
                   ELSE /\ sock' = [sock EXCEPT ![c] = "ended"]
                        /\ wire' = [wire EXCEPT ![c] = Append(@, FallbackDeny)]
        /\ UNCHANGED <<envVars, clockVars, histVars, closeListeners, nextId, heap,
                       pendingRequests, tsToPendingId, sessionApprovals, recentRequestHashes,
                       tasks, posted, origin>>

GatewayNext ==
    \/ \E c \in SignalConns, data \in Chunks : SocketData(c, data)
    \/ \E c \in SignalConns : SocketClose(c)

GatewaySpec == Init /\ [][GatewayNext]_vars

(***************************************************************************)
(* ShutdownSpec: the daemon with its SIGINT/SIGTERM handler                *)
(* (server.ts:1159-1179), for two connections of one session.  `proc`      *)
(* holds whether the process runs, the calls of shutdown() so far, the     *)
(* calls that are suspended on `await slackApp.stop()`, and whether the    *)
(* socket file and the PID file exist.                                     *)
(***************************************************************************)
\* SIGINT and SIGTERM signals the process is sent in one run
MaxStops == 2

\* server.ts:1159-1169  a SIGINT or SIGTERM arrives: shutdown() is called.
\* It ends `pending.socket` of every pending request (not the additional
\* sockets) and suspends on slackApp.stop().  Nothing tells it that an
\* earlier call is under way.
ShutdownSignal ==
    /\ proc.running
    /\ proc.shutdownCalls < MaxStops
    /\ sock' = EndAll({heap[id].socket : id \in pendingRequests} \ {NoSocket})
    /\ proc' = [proc EXCEPT !.shutdownCalls = @ + 1, !.stopping = @ + 1]
    /\ UNCHANGED <<hook, endedSessions, launch, gatewayVars, clockVars, histVars, wire,
                   closeListeners, nextId, heap, pendingRequests, tsToPendingId,
                   sessionApprovals, recentRequestHashes, tasks, posted, origin>>

\* server.ts:1171-1174  slackApp.stop() has settled for one of the suspended
\* calls.  Resolved: socketServer.close(), cleanupSocket() removes the two
\* files, process.exit(0).  Rejected: shutdown() rejects with no handler,
\* and the unhandled rejection terminates the process with the files left.
StopSettled(ok) ==
    /\ proc.running
    /\ proc.stopping > 0
    /\ proc' = [proc EXCEPT !.running = FALSE, !.stopping = @ - 1,
                            !.files = IF ok THEN FALSE ELSE @]
    /\ UNCHANGED <<hook, endedSessions, launch, gatewayVars, clockVars, histVars, sock, wire,
                   closeListeners, nextId, heap, pendingRequests, tsToPendingId,
                   sessionApprovals, recentRequestHashes, tasks, posted, origin>>

ShutdownNext ==
    \/ proc.running /\ \E c \in SignalConns, r \in SignalRequests : HandleDuplicate(c, r)
    \/ proc.running /\ \E c \in SignalConns, r \in SignalRequests : HandleNew(c, r)
    \/ proc.running /\ \E t \in tasks : PublishOk(t)
    \/ proc.running /\ \E t \in tasks : PublishFail(t)
    \/ proc.running /\ \E c \in SignalConns : SocketClose(c)
    \/ proc.running /\ \E t \in tasks : CloseHandlerResume(t)
    \/ proc.running /\ \E k \in {"approve", "deny"}, id \in posted : ButtonClicked(k, id)
    \/ proc.running /\ \E t \in tasks, ok \in BOOLEAN : TerminalResume(t, ok)
    \/ ShutdownSignal
    \/ \E ok \in BOOLEAN : StopSettled(ok)

ShutdownSpec == Init /\ [][ShutdownNext]_vars

(***************************************************************************)
(* ReplySpec: every reply path that follows a parsed request, for two      *)
(* connections of one session that carry a tool approval, a question, or a *)
(* question request with an empty question list.                           *)
(***************************************************************************)
ReplyRequests ==
    { PermissionRequest("s1", "Bash", InputLs),
      AskUserQuestionRequest("s1", <<Q1>>),
      AskUserQuestionRequest("s1", <<>>) }

ReplyNext ==
    \/ \E c \in SignalConns, r \in ReplyRequests : HandleDuplicate(c, r)
    \/ \E c \in SignalConns, r \in ReplyRequests : HandleCacheHit(c, r)
    \/ \E c \in SignalConns, r \in ReplyRequests : HandleNew(c, r)
    \/ \E t \in tasks : PublishOk(t)
    \/ \E t \in tasks : PublishFail(t)
    \/ \E k \in {"approve", "deny"}, id \in posted : ButtonClicked(k, id)
    \/ \E t \in tasks, ok \in BOOLEAN : TerminalResume(t, ok)
    \/ \E id \in posted, qi \in QuestionIndexes, oi \in OptionIndexes : OptionClicked(id, qi, oi)
    \/ \E t \in tasks, ok \in BOOLEAN : AnswerResume(t, ok)

ReplySpec == Init /\ [][ReplyNext]_vars

(***************************************************************************)
(* IgnoredSpec: reactions and messages, of both vocabularies and of        *)
(* neither, with a record of the ones a handler ignored, for two           *)
(* connections of one session that carry a tool approval or a question.    *)
(***************************************************************************)
IgnoredNext ==
    \/ \E c \in SignalConns, r \in SignalRequests : HandleDuplicate(c, r)
    \/ \E c \in SignalConns, r \in SignalRequests : HandleCacheHit(c, r)
    \/ \E c \in SignalConns, r \in SignalRequests : HandleNew(c, r)
    \/ \E t \in tasks : PublishOk(t)
    \/ \E ts \in posted, r \in Reactions : ReactionAdded(ts, r)
    \/ \E ts \in posted \cup {NoTs}, ch \in Channels, x \in Texts : MessageReceived(ts, ch, x)
    \/ \E t \in tasks, ok \in BOOLEAN : TerminalResume(t, ok)
    \/ \E id \in posted, r \in Reactions : SignalIgnored("reaction", id, r)
    \/ \E id \in posted, x \in Texts : SignalIgnored("reply", id, x)

IgnoredSpec == Init /\ [][IgnoredNext]_vars

(***************************************************************************)
(* HookSpec: one run of the hook client.  The daemon is the environment    *)
(* of this process: what the PID file holds, which processes are alive,    *)
(* whether a spawned daemon gets ready, and what comes back on the socket. *)
(***************************************************************************)
\* hook.ts:10
LOCK_CHECK_INTERVAL == 500

\* hook.ts:15  the delay when no --delay argument is given
DefaultDelay == 60000

\* by how much a timer may fire after its interval
SleepOvershoots == {0, 100}

\* the values of --delay: "0", "1s", "2s", or none given
NoArg == [given |-> FALSE, zero |-> FALSE, h |-> 0, m |-> 0, s |-> 0]
DelayArgs ==
    { NoArg,
      [given |-> TRUE, zero |-> TRUE, h |-> 0, m |-> 0, s |-> 0],
      [given |-> TRUE, zero |-> FALSE, h |-> 0, m |-> 0, s |-> 1],
      [given |-> TRUE, zero |-> FALSE, h |-> 0, m |-> 0, s |-> 2] }

\* the values of --notify-immediately-on-lock
LockArgs == {"true", "false", "none"}

\* what stdin carries
Stdins == {"permission", "question", "unparsable"}

\* utils.ts:7-22  milliseconds of a duration that matches the pattern
parseDuration(arg) ==
    IF arg.zero THEN 0
    ELSE arg.h * 60 * 60 * 1000 + arg.m * 60 * 1000 + arg.s * 1000

\* hook.ts:13-38  parseArgs
parseArgs(delayArg, lockArg) ==
    [delay |-> IF delayArg.given THEN parseDuration(delayArg) ELSE DefaultDelay,
     notifyImmediatelyOnLock |-> lockArg # "false"]

\* hook.ts:178-184  the line printed for an AskUserQuestion request
questionAllowResponse ==
    PreToolUseOutput("allow", "Question notification sent to Slack", FALSE, NoAnswers)

\* the lines the daemon writes to a connection that carried a permission request
DaemonLines ==
    { PermissionRequestOutput("allow", "-"),
      PermissionRequestOutput("deny", "Denied via Slack"),
      FallbackDeny }

\* a failure that exits without a line on stdout
HookFailsSilently(h) ==
    [h EXCEPT !.pc = "exited", !.exitCode = 1]

\* hook.ts:225-230  main().catch
HookFails(h) ==
    [h EXCEPT !.pc = "exited", !.stdout = Append(@, FallbackDeny), !.exitCode = 1]

serverVars == <<sock, wire, closeListeners, nextId, heap, pendingRequests, tsToPendingId,
                sessionApprovals, recentRequestHashes, tasks, posted, origin>>

\* a run that sends an AskUserQuestion request through the wait of a
\* permission request
HookStartDelayingQuestions(delayArg, lockArg, stdin) ==
    /\ hook.pc = "start"
    /\ stdin # "unparsable"
    /\ LET config == parseArgs(delayArg, lockArg)
       IN  hook' = [hook EXCEPT !.kind = stdin,
                                !.delay = config.delay,
                                !.checkLock = config.notifyImmediatelyOnLock,
                                !.pc = IF config.delay > 0 THEN "wait" ELSE "ensure"]
    /\ UNCHANGED <<proc, endedSessions, launch, gatewayVars, clockVars, histVars, serverVars>>

\* hook.ts:156-211  main up to its first wait: parseArgs, readStdin, the
\* AskUserQuestion branch, and the entry of waitWithLockCheck
HookStart(delayArg, lockArg, stdin) ==
    /\ hook.pc = "start"
    /\ IF stdin = "unparsable"
       THEN hook' = HookFails([hook EXCEPT !.kind = stdin])
       ELSE LET config == parseArgs(delayArg, lockArg)
                h == [hook EXCEPT !.kind = stdin,
                                  !.delay = config.delay,
                                  !.checkLock = config.notifyImmediatelyOnLock]
            IN  IF stdin = "question"
                THEN hook' = [h EXCEPT !.stdout = Append(@, questionAllowResponse),
                                       !.notify = "spawned",
                                       !.exitCode = 0,
                                       !.pc = "exited"]
                ELSE hook' = [h EXCEPT !.pc = IF config.delay > 0 THEN "wait" ELSE "ensure"]
    /\ UNCHANGED <<proc, endedSessions, launch, gatewayVars, clockVars, histVars, serverVars>>

\* the screen gets locked or unlocked while the client waits
ScreenLockChanges ==
    /\ hook.pc = "wait"
    /\ hook' = [hook EXCEPT !.locked = ~@]
    /\ UNCHANGED <<proc, endedSessions, launch, gatewayVars, clockVars, histVars, serverVars>>

\* a wait loop that looks at the screen whatever the option says
WaitIterationAlwaysChecking(overshoot) ==
    /\ hook.pc = "wait"
    /\ IF hook.elapsed < hook.delay
       THEN IF hook.locked
            THEN hook' = [hook EXCEPT !.lockObserved = TRUE, !.pc = "ensure"]
            ELSE hook' = [hook EXCEPT !.elapsed = @ + LOCK_CHECK_INTERVAL + overshoot]
       ELSE hook' = [hook EXCEPT !.pc = "ensure"]
    /\ UNCHANGED <<proc, endedSessions, launch, gatewayVars, clockVars, histVars, serverVars>>

\* hook.ts:79-90  one evaluation of the loop of waitWithLockCheck: the
\* condition, the lock check, and the sleep that follows
WaitIteration(overshoot) ==
    /\ hook.pc = "wait"
    /\ IF hook.elapsed < hook.delay
       THEN IF hook.checkLock /\ hook.locked
            THEN hook' = [hook EXCEPT !.lockObserved = TRUE, !.pc = "ensure"]
            ELSE hook' = [hook EXCEPT !.elapsed = @ + LOCK_CHECK_INTERVAL + overshoot]
       ELSE hook' = [hook EXCEPT !.pc = "ensure"]
    /\ UNCHANGED <<proc, endedSessions, launch, gatewayVars, clockVars, histVars, serverVars>>

(***************************************************************************)
(* The PID file.  Its content is a string over a digit and a letter;       *)
(* parseInt reads the digits the string starts with.                       *)
(***************************************************************************)
Digits == {"7"}
Chars == Digits \cup {"x"}
MaxMarker == 2
Contents == UNION {[1 .. n -> Chars] : n \in 0 .. MaxMarker}

DigitValue(ch) == IF ch = "7" THEN 7 ELSE 0

\* the result of parseInt for a string that does not start with a digit
NaN == -1

RECURSIVE parseInt10(_, _)
\* socket.ts:47  parseInt(content, 10), acc the value of the digits read
parseInt10(content, acc) ==
    IF content = <<>> \/ Head(content) \notin Digits
    THEN acc
    ELSE parseInt10(Tail(content), 10 * (IF acc = NaN THEN 0 ELSE acc) + DigitValue(Head(content)))

parseInt(content) == parseInt10(content, NaN)

\* the content is the decimal notation of a process id
IsPid(content) == content # <<>> /\ \A i \in DOMAIN content : content[i] \in Digits

\* the process ids a PID file of this size can name
Pids == {parseInt(c) : c \in {x \in Contents : IsPid(x)}}

\* socket.ts:50  process.kill(pid, 0) returns: the process exists
killReturns(pid, alive) == pid \in alive

\* socket.ts:41-57  the PID returned, or null; cleaned: cleanupSocket ran
getRunningServerPid(exists, content, alive) ==
    IF ~exists THEN [pid |-> NaN, null |-> TRUE, cleaned |-> FALSE]
    ELSE IF killReturns(parseInt(content), alive)
         THEN [pid |-> parseInt(content), null |-> FALSE, cleaned |-> FALSE]
         ELSE [pid |-> NaN, null |-> TRUE, cleaned |-> TRUE]

\* hook.ts:95-113  ensureServerRunning up to its wait for the server
EnsureServerRunning(exists, content, alive) ==
    /\ hook.pc = "ensure"
    /\ LET running == getRunningServerPid(exists, content, alive)
       IN  hook' = [hook EXCEPT !.contactedAt = hook.elapsed,
                                !.markerFound = exists,
                                !.marker = content,
                                !.markerExists = exists /\ ~running.cleaned,
                                !.alive = alive,
                                !.running = running,
                                !.spawned = running.null,
                                !.pc = IF running.null THEN "starting" ELSE "send"]
    /\ UNCHANGED <<proc, endedSessions, launch, gatewayVars, clockVars, histVars, serverVars>>

\* hook.ts:116-119  waitForServer returned
ServerWaited(ready) ==
    /\ hook.pc = "starting"
    /\ hook' = IF ready THEN [hook EXCEPT !.pc = "send"] ELSE HookFails(hook)
    /\ UNCHANGED <<proc, endedSessions, launch, gatewayVars, clockVars, histVars, serverVars>>

\* what sendRequest ends with
SendOutcomes == {"line", "unparsable", "timeout", "error", "close"}

\* hook.ts:218-222, socket.ts:91-147  sendRequest settled: with the parsed
\* first line, or with a rejection
SendRequestSettled(outcome, line) ==
    /\ hook.pc = "send"
    /\ hook' = CASE outcome = "line" ->
                        [hook EXCEPT !.received = line,
                                     !.stdout = Append(@, line),
                                     !.exitCode = 0,
                                     !.pc = "exited"]
                 [] outcome = "unparsable" ->
                        HookFails([hook EXCEPT !.received = UnparsableLine])
                 [] OTHER -> HookFails(hook)
    /\ UNCHANGED <<proc, endedSessions, launch, gatewayVars, clockVars, histVars, serverVars>>

\* notify.ts:33-48  the detached notification ended: sent, or failed
NotifySettled(ok) ==
    /\ hook.notify = "spawned"
    /\ hook' = [hook EXCEPT !.notify = IF ok THEN "sent" ELSE "failed"]
    /\ UNCHANGED <<proc, endedSessions, launch, gatewayVars, clockVars, histVars, serverVars>>

HookNext ==
    \/ \E d \in DelayArgs, l \in LockArgs, i \in Stdins : HookStart(d, l, i)
    \/ ScreenLockChanges
    \/ \E o \in SleepOvershoots : WaitIteration(o)
    \/ \E e \in BOOLEAN, c \in Contents, a \in SUBSET Pids : EnsureServerRunning(e, c, a)
    \/ \E ready \in BOOLEAN : ServerWaited(ready)
    \/ \E o \in SendOutcomes, l \in DaemonLines : SendRequestSettled(o, l)
    \/ \E ok \in BOOLEAN : NotifySettled(ok)

HookSpec == Init /\ [][HookNext]_vars

(***************************************************************************)
(* SessionSpec: permission requests of two sessions, approved or denied,   *)
(* and the end of a session of the agent.  The daemon has no input that    *)
(* tells it of the end of a session: the hook client is run for            *)
(* permission requests and AskUserQuestion calls only, and handleRequest   *)
(* knows no other kind of request.                                         *)
(***************************************************************************)
SessionRequests ==
    { PermissionRequest("s1", "Bash", InputLs),
      PermissionRequest("s2", "Bash", InputLs) }

\* the agent ends session s
SessionEnds(s) ==
    /\ s \notin endedSessions
    /\ endedSessions' = endedSessions \cup {s}
    /\ UNCHANGED <<proc, hook, launch, gatewayVars, clockVars, histVars, serverVars>>

SessionNext ==
    \/ \E c \in SignalConns, r \in SessionRequests : HandleDuplicate(c, r)
    \/ \E c \in SignalConns, r \in SessionRequests : HandleCacheHit(c, r)
    \/ \E c \in SignalConns, r \in SessionRequests : HandleNew(c, r)
    \/ \E t \in tasks : PublishOk(t)
    \/ \E k \in {"approve", "deny"}, id \in posted : ButtonClicked(k, id)
    \/ \E t \in tasks, ok \in BOOLEAN : TerminalResume(t, ok)
    \/ \E s \in {r.session_id : r \in SessionRequests} : SessionEnds(s)

SessionSpec == Init /\ [][SessionNext]_vars

(***************************************************************************)
(* DirectSpec: permission requests of two sessions, answered by messages   *)
(* written to the channel itself (no thread_ts) only.                      *)
(***************************************************************************)
DirectNext ==
    \/ \E c \in SignalConns, r \in SessionRequests : HandleDuplicate(c, r)
    \/ \E c \in SignalConns, r \in SessionRequests : HandleCacheHit(c, r)
    \/ \E c \in SignalConns, r \in SessionRequests : HandleNew(c, r)
    \/ \E t \in tasks : PublishOk(t)
    \/ \E ch \in Channels, x \in Texts : MessageReceived(NoTs, ch, x)
    \/ \E t \in tasks, ok \in BOOLEAN : TerminalResume(t, ok)

DirectSpec == Init /\ [][DirectNext]_vars

(***************************************************************************)
(* OrderSpec: Bash requests of one session whose tool_input lists the same *)
(* members in different orders, at the top level and inside `env`, and one *)
(* request with another command.                                           *)
(***************************************************************************)
EnvAB == ObjVal(<<Member("command", StrVal("x")), Member("env", StrVal("y"))>>)
EnvBA == ObjVal(<<Member("env", StrVal("y")), Member("command", StrVal("x"))>>)

OrderRequests ==
    { PermissionRequest("s1", "Bash",
          <<Member("command", StrVal("ls")), Member("timeout", StrVal("5"))>>),
      PermissionRequest("s1", "Bash",
          <<Member("timeout", StrVal("5")), Member("command", StrVal("ls"))>>),
      PermissionRequest("s1", "Bash", <<Member("command", StrVal("ls")), Member("env", EnvAB)>>),
      PermissionRequest("s1", "Bash", <<Member("env", EnvBA), Member("command", StrVal("ls"))>>),
      PermissionRequest("s1", "Bash",
          <<Member("timeout", StrVal("5")), Member("command", StrVal("pwd"))>>) }

OrderNext ==
    \/ \E c \in Conns, r \in OrderRequests : HandleDuplicate(c, r)
    \/ \E c \in Conns, r \in OrderRequests : HandleCacheHit(c, r)
    \/ \E c \in Conns, r \in OrderRequests : HandleNew(c, r)
    \/ \E t \in tasks : PublishOk(t)
    \/ \E k \in {"approve", "deny"}, id \in posted : ButtonClicked(k, id)
    \/ \E t \in tasks, ok \in BOOLEAN : TerminalResume(t, ok)

OrderSpec == Init /\ [][OrderNext]_vars

(***************************************************************************)
(* LaunchSpec: several hook or notify clients that run ensureServerRunning *)
(* while no daemon is alive, and the start of the daemons they spawn.  The *)
(* processes share the PID file and the socket path and nothing else.      *)
(***************************************************************************)
\* the daemon process exists and has not exited
DaemonAlive(d) == launch.daemons[d] \in {"spawned", "connecting", "listening"}

\* socket.ts:70-86  cleanupSocket: both files are removed, whoever wrote them
cleanupSocket(l) == [l EXCEPT !.pidFile = 0, !.sockFile = 0]

\* hook.ts:95-113, notify.ts:11-25  ensureServerRunning up to its wait:
\* getRunningServerPid (socket.ts:41-57) and, if it returns null, spawn
LauncherChecks(k) ==
    /\ launch.clients[k] = "start"
    /\ launch' =
         IF launch.pidFile = 0
         THEN [launch EXCEPT !.clients[k] = "waiting", !.daemons[k] = "spawned"]
         ELSE IF DaemonAlive(launch.pidFile)
              THEN [launch EXCEPT !.clients[k] = "ready"]
              ELSE [cleanupSocket(launch) EXCEPT !.clients[k] = "waiting",
                                                 !.daemons[k] = "spawned"]
    /\ UNCHANGED <<proc, hook, endedSessions, gatewayVars, clockVars, histVars, serverVars>>

\* hook.ts:116-119, socket.ts:205-235  waitForServer returned: true when the
\* socket path led to a listening daemon, false after ten seconds
LauncherWaited(k, ready) ==
    /\ launch.clients[k] = "waiting"
    /\ ready => (launch.sockFile # 0 /\ launch.daemons[launch.sockFile] = "listening")
    /\ launch' = [launch EXCEPT !.clients[k] = IF ready THEN "ready" ELSE "failed"]
    /\ UNCHANGED <<proc, hook, endedSessions, gatewayVars, clockVars, histVars, serverVars>>

\* server.ts:1146-1151  start: writePidFile(process.pid), then
\* slackApp.start() is awaited
DaemonWritesPid(d) ==
    /\ launch.daemons[d] = "spawned"
    /\ launch' = [launch EXCEPT !.daemons[d] = "connecting", !.pidFile = d]
    /\ UNCHANGED <<proc, hook, endedSessions, gatewayVars, clockVars, histVars, serverVars>>

\* server.ts:1151-1155, socket.ts:158-199  slackApp.start() resolved:
\* createSocketServer unlinks the socket file if there is one and listens
\* on the path.  server.ts:1181-1185  it rejected: cleanupSocket, exit(1)
DaemonConnected(d, ok) ==
    /\ launch.daemons[d] = "connecting"
    /\ launch' = IF ok
                 THEN [launch EXCEPT !.daemons[d] = "listening", !.sockFile = d]
                 ELSE [cleanupSocket(launch) EXCEPT !.daemons[d] = "exited"]
    /\ UNCHANGED <<proc, hook, endedSessions, gatewayVars, clockVars, histVars, serverVars>>

LaunchNext ==
    \/ \E k \in Launchers : LauncherChecks(k)
    \/ \E k \in Launchers, ready \in BOOLEAN : LauncherWaited(k, ready)
    \/ \E d \in Launchers : DaemonWritesPid(d)
    \/ \E d \in Launchers, ok \in BOOLEAN : DaemonConnected(d, ok)

LaunchSpec == Init /\ [][LaunchNext]_vars

(***************************************************************************)
(* Properties.  `origin` tells what handleRequest did with a connection:   *)
(* which request it carried, when, and the request id it was given or      *)
(* attached to.                                                            *)
(***************************************************************************)
\* the connection carried a request that handleRequest saw
Submitted(c) == origin[c].how \in {"new", "attach", "cache", "empty"}

\* the connection carried an ActionApproval (a permission request)
IsActionApproval(c) == Submitted(c) /\ ~isQuestionRequest(origin[c].request)

\* the connections that wait for the decision of request id
AttachedTo(id) == {c \in Conns : origin[c].how \in {"new", "attach"} /\ origin[c].id = id}

\* an approve signal was recorded for a request of this session and fingerprint
ApproveRecordedFor(sessionId, fingerprint) ==
    \E id \in approvedBy :
        /\ heap[id].request.session_id = sessionId
        /\ Fingerprint(heap[id].request) = fingerprint

\* C1: an allow line is on the wire of a connection that carried an
\* ActionApproval only if an approve signal was recorded for a request of the
\* same session and fingerprint; the reply to a malformed frame is no allow
C1_AllowOnlyAfterApprove ==
    \A c \in Conns : \A i \in DOMAIN wire[c] :
        wire[c][i].decision = "allow" =>
            /\ origin[c].how # "malformed"
            /\ IsActionApproval(c) =>
                   ApproveRecordedFor(origin[c].request.session_id,
                                      Fingerprint(origin[c].request))

\* an approved request answered allow, and a later one answered from the cache
C1_Witness ==
    \E c1, c2 \in Conns :
        /\ origin[c1].how = "new" /\ IsActionApproval(c1)
        /\ origin[c1].id \in approvedBy
        /\ wire[c1] = <<PermissionRequestOutput("allow", "-")>>
        /\ origin[c2].how = "cache"
        /\ wire[c2] = <<cacheResponse>>

RepliesAgree ==
    \A c1, c2 \in Conns :
        ( /\ origin[c1].how \in {"new", "attach"} /\ origin[c2].how \in {"new", "attach"}
          /\ origin[c1].id = origin[c2].id
          /\ wire[c1] # <<>> /\ wire[c2] # <<>> )
        => wire[c1] = wire[c2]

AnsweredFromCache(c) ==
    /\ wire'[c] = <<PermissionRequestOutput("allow", "-")>>
    /\ sock'[c] = "ended"
    /\ UNCHANGED <<heap, pendingRequests, tasks, posted>>

\* this step submits, on connection c, an ActionApproval for which an approve
\* signal was recorded in its session before
SubmitsApproved(c) ==
    /\ sock[c] = "idle" /\ IsActionApproval(c)'
    /\ ApproveRecordedFor(origin'[c].request.session_id, Fingerprint(origin'[c].request))

C4_DeniedNeverCached ==
    \A c \in Conns :
        ( /\ IsActionApproval(c) /\ origin[c].how \in {"new", "attach"}
          /\ \E i \in DOMAIN wire[c] : wire[c][i].decision = "deny" )
        => origin[c].id \notin approvedBy

\* the runs of Slack event handlers
IsSignalTask(t) == t.kind \notin {"handleRequest", "close"}

\* C5: of the signals delivered for one request only the first has effect: a
\* handler run that started while another run for the same request was in
\* flight changes neither the session cache nor the registry when it starts,
\* and writes nothing and changes neither of them when it ends before that
\* other run
C5_FirstSignalWins ==
    [][ /\ \A u \in tasks' \ tasks :
             (IsSignalTask(u) /\ u.rank > 0)
             => UNCHANGED <<sessionApprovals, pendingRequests, tsToPendingId>>
        /\ \A t \in tasks \ tasks' :
             ( /\ IsSignalTask(t)
               /\ \E u \in tasks' : IsSignalTask(u) /\ u.id = t.id /\ u.rank < t.rank )
             => UNCHANGED <<wire, sessionApprovals, pendingRequests, tsToPendingId>> ]_vars

\* C6: once a reply is on one connection of a published request, every
\* connection that was attached to the request holds that same single line
\* and none is left open; a connection without the line is one its peer had
\* closed before
C6_SameReplyToAllAttached ==
    \A id \in posted : \A c1, c2 \in AttachedTo(id) :
        wire[c1] # <<>> =>
            /\ Len(wire[c1]) = 1
            /\ sock[c1] # "open" /\ sock[c2] # "open"
            /\ wire[c2] = wire[c1] \/ (wire[c2] = <<>> /\ sock[c2] = "closed")

\* the original connection and two duplicates, answered alike and ended
C6_Witness ==
    \E id \in posted :
        /\ Cardinality(AttachedTo(id)) = 3
        /\ \A c \in AttachedTo(id) :
               /\ sock[c] = "ended"
               /\ Len(wire[c]) = 1
               /\ \A d \in AttachedTo(id) : wire[d] = wire[c]

\* C7: the close of a client connection, and the listener it starts, remove
\* no request from the registry
C7_CloseDoesNotCancel ==
    [][ ( \/ \E c \in Conns : sock[c] = "open" /\ sock'[c] = "closed"
          \/ \E t \in tasks \ tasks' : t.kind = "close" )
        => pendingRequests' = pendingRequests ]_vars

\* C8: when a connection waiting for a published request was closed by its
\* peer, the timed-out update of the prompt has been sent by the time the
\* request is out of the registry and no handler run for it is left
C8_CloseMarksPromptTimedOut ==
    \A c \in Conns :
        ( /\ sock[c] = "closed" /\ origin[c].how \in {"new", "attach"}
          /\ origin[c].id \in posted
          /\ origin[c].id \notin pendingRequests
          /\ \A t \in tasks : t.id # origin[c].id )
        => origin[c].id \in timeoutTried

\* C9: when the chat.update of a terminal signal has settled, the request is
\* out of the registry and every connection still waiting for it has got a
\* reply line, whether the update succeeded or failed
C9_UpdateFailureStillReplies ==
    [][ \A t \in tasks \ tasks' :
            (t.kind = "terminal" /\ t.id \in pendingRequests)
            => /\ t.id \notin pendingRequests'
               /\ \A c \in AttachedTo(t.id) :
                      sock[c] = "open" => Len(wire'[c]) = Len(wire[c]) + 1 ]_vars

\* chat.postMessage for the request was rejected
PublishFailed(id) ==
    /\ id \in DOMAIN heap /\ id \notin posted
    /\ \A t \in tasks : ~(t.kind = "handleRequest" /\ t.id = id)

\* the deny line in the reply shape of the request's kind
DenyOfKind(request) ==
    IF isQuestionRequest(request)
    THEN [hookEventName |-> "PreToolUse", decision |-> "deny", message |-> "-",
          reason |-> "Denied via Slack", updatedInput |-> FALSE, answers |-> <<>>]
    ELSE [hookEventName |-> "PermissionRequest", decision |-> "deny",
          message |-> "Denied via Slack", reason |-> "-", updatedInput |-> FALSE,
          answers |-> <<>>]

\* C10: after a failed publish the request is out of the registry and its
\* originating connection is not open: it holds exactly the deny line of its
\* kind, unless its peer had closed it or the sweep had ended it before
C10_PublishFailureDenies ==
    \A c \in Conns :
        (origin[c].how = "new" /\ PublishFailed(origin[c].id)) =>
            /\ origin[c].id \notin pendingRequests
            /\ sock[c] # "open"
            /\ \/ wire[c] = <<DenyOfKind(origin[c].request)>>
               \/ wire[c] = <<>> /\ (sock[c] = "closed" \/ IsStale(heap[origin[c].id]))

\* a question whose publish failed, answered deny in the PreToolUse shape
C10_Witness ==
    \E c \in Conns :
        /\ origin[c].how = "new" /\ isQuestionRequest(origin[c].request)
        /\ PublishFailed(origin[c].id)
        /\ sock[c] = "ended"
        /\ wire[c] = <<DenyOfKind(origin[c].request)>>
        /\ wire[c][1].hookEventName = "PreToolUse"

\* what the daemon holds and what it has written: the registry, the message
\* index, the dedup index, the session cache, the handler runs, the sockets
daemonState == <<pendingRequests, heap, tsToPendingId, recentRequestHashes,
                 sessionApprovals, tasks, sock, wire, closeListeners>>

\* this step is the run of a handler for a signal that names request id
SignalNaming(id) ==
    \/ \E k \in {"approve", "deny"} : ButtonClicked(k, id)
    \/ \E r \in Reactions : ReactionAdded(TsOf(id), r)
    \/ \E x \in Texts : MessageReceived(TsOf(id), SLACK_CHANNEL_ID, x)
    \/ \E qi \in QuestionIndexes, oi \in OptionIndexes : OptionClicked(id, qi, oi)
    \/ \E qi \in QuestionIndexes, a \in CustomAnswers : ModalSubmitted(id, qi, a)
    \/ ConfirmClicked(id)
    \/ \E k \in SignalKinds : SignalDropped(k, id)

\* C11: the run of a handler for a signal that names a request which is out
\* of the registry writes no reply and leaves the registry, the dedup index
\* and the session cache as they are
C11_SignalForMissingRequestIgnored ==
    [][ /\ dropped' # dropped => UNCHANGED daemonState
        /\ daemonState' # daemonState =>
               \A id \in posted \ pendingRequests : ~SignalNaming(id) ]_vars

\* a signal was dropped that named a request resolved before, whose
\* connection holds the reply
C11_Witness ==
    \E c \in Conns :
        /\ origin[c].how = "new" /\ dropped = origin[c].id
        /\ origin[c].id \in posted /\ origin[c].id \notin pendingRequests
        /\ wire[c] # <<>> /\ sock[c] = "ended"

\* the request is older than the staleness threshold
OlderThanTwoHours(id) == now - heap[id].createdAt > twoHours

\* C12: a sweep removes from the registry exactly the requests older than
\* two hours, whatever the state of their connections; and the run of a
\* handler for a signal that names such a request, once it is out of the
\* registry, writes nothing and changes nothing
C12_SweepRemovesStaleRequests ==
    [][ /\ lastSweep' # lastSweep =>
               pendingRequests' = {id \in pendingRequests : ~OlderThanTwoHours(id)}
        /\ \A id \in posted \ pendingRequests :
               (OlderThanTwoHours(id) /\ dropped' = id /\ dropped # id)
               => UNCHANGED daemonState
        /\ daemonState' # daemonState =>
               \A id \in posted \ pendingRequests :
                   OlderThanTwoHours(id) => ~SignalNaming(id) ]_vars

\* a request whose only connection was closed by its peer (before the prompt
\* was posted, so that no listener saw it) stayed in the registry until a
\* sweep removed it, and a signal that named it afterwards was dropped
C12_Witness ==
    \E c \in Conns :
        /\ origin[c].how = "new" /\ AttachedTo(origin[c].id) = {c}
        /\ sock[c] = "closed" /\ wire[c] = <<>>
        /\ origin[c].id \in posted \ timeoutTried
        /\ TsOf(origin[c].id) \in DOMAIN tsToPendingId
        /\ OlderThanTwoHours(origin[c].id)
        /\ lastSweep = now
        /\ origin[c].id \notin pendingRequests
        /\ dropped = origin[c].id

\* the dedup index holds an entry that points to request id under hash h
DedupEntryOf(h, id) ==
    h \in DOMAIN recentRequestHashes /\ recentRequestHashes[h].requestId = id

\* C13: once a reply line for a request is on one of its connections, the
\* request is out of the registry and the dedup index holds no entry that
\* points to it
C13_DeliveredRequestLeavesNoEntry ==
    \A c \in Conns :
        (origin[c].how \in {"new", "attach"} /\ wire[c] # <<>>)
        => /\ origin[c].id \notin pendingRequests
           /\ ~DedupEntryOf(DedupHash(origin[c].request), origin[c].id)

\* a question request of two questions, both single-select
TwoSingleSelect(request) ==
    /\ isQuestionRequest(request)
    /\ Len(getQuestions(request)) = 2
    /\ ~SomeMultiSelect(getQuestions(request))

\* every question has an answer that is not the empty string
EveryQuestionAnswered(answers) ==
    \A i \in DOMAIN answers : answers[i].kind # "none" /\ answers[i].labels # <<"">>

\* the allow line that carries the answers keyed by the full question text
AllowWithAnswers(request, answers) ==
    PreToolUseOutput("allow", "Approved via Slack", TRUE,
        [i \in DOMAIN answers |->
            [key |-> getQuestions(request)[i].question, value |-> answers[i].labels]])

\* C14: for a pending question of two single-select questions, in either
\* wire shape: a step that stores an answer and leaves a question unanswered
\* writes no reply and keeps the request pending; and when the update of the
\* prompt that follows the completing answer has succeeded, every open
\* connection of the request gets exactly the allow line whose answers map
\* each question text to the label stored for it
C14_BothAnswersThenOneAllow ==
    [][ \A id \in QuestionPrompts \cap pendingRequests :
            TwoSingleSelect(heap[id].request) =>
                /\ ( /\ heap'[id].answers # heap[id].answers
                     /\ ~EveryQuestionAnswered(heap'[id].answers) )
                   => /\ wire' = wire /\ tasks' = tasks
                      /\ id \in pendingRequests'
                /\ \A t \in tasks :
                      (t.id = id /\ t.kind = "answer" /\ AnswerResume(t, TRUE))
                      => \A c \in AttachedTo(id) :
                             sock[c] = "open" =>
                                 wire'[c] = <<AllowWithAnswers(heap[id].request,
                                                               heap[id].answers)>> ]_vars

\* C15: for a pending question that contains a multi-select question: a click
\* on an option that is selected leaves it unselected, and no option click
\* and no modal submission resolves the request: a handler run that goes on
\* to answer it is one that a click on the confirm button started
C15_OnlyConfirmResolvesMultiSelect ==
    [][ \A id \in QuestionPrompts \cap pendingRequests :
            SomeMultiSelect(getQuestions(heap[id].request)) =>
                /\ \A qi \in QuestionIndexes, oi \in OptionIndexes :
                       ( /\ OptionClicked(id, qi, oi)
                         /\ heap[id].answers[qi].kind = "multi"
                         /\ \E i \in DOMAIN heap[id].answers[qi].labels :
                                heap[id].answers[qi].labels[i]
                                    = getQuestions(heap[id].request)[qi].options[oi] )
                       => \A i \in DOMAIN heap'[id].answers[qi].labels :
                              heap'[id].answers[qi].labels[i]
                                  # getQuestions(heap[id].request)[qi].options[oi]
                /\ \A t \in tasks' \ tasks :
                       (IsSignalTask(t) /\ t.id = id) => t.kind = "confirm" ]_vars

\* a step in which the handler of a human approve signal runs: a click on
\* Approve, an approving reaction, an approving message
ApproveSignal ==
    \/ \E id \in posted : ButtonClicked("approve", id)
    \/ \E ts \in posted, r \in ApproveReactions : ReactionAdded(ts, r)
    \/ \E ts \in posted \cup {NoTs}, ch \in Channels, x \in ApproveTexts :
           MessageReceived(ts, ch, x)

C17_ApprovalsScopedToSession ==
    [][ \A c \in Conns :
            ( /\ origin[c].how = "none"
              /\ origin'[c].how \in {"attach", "cache", "new"}
              /\ ~isQuestionRequest(origin'[c].request)
              /\ ~ApproveRecordedFor(origin'[c].request.session_id,
                                     Fingerprint(origin'[c].request)) )
            => /\ wire'[c] = <<>>
               /\ origin'[c].how # "cache"
               /\ origin'[c].how = "attach" =>
                     /\ origin'[c].id \in pendingRequests
                     /\ heap[origin'[c].id].request.session_id
                            = origin'[c].request.session_id
               /\ origin'[c].how = "new" =>
                     \E t \in tasks' \ tasks :
                         t.kind = "handleRequest" /\ t.pc = "post" /\ t.id = origin'[c].id ]_vars

\* an approval is cached in one session, and the identical request of the
\* other session, submitted afterwards, has a prompt of its own
C17_Witness ==
    \E c1, c2 \in Conns :
        /\ origin[c1].how = "new" /\ origin[c2].how = "new"
        /\ ~isQuestionRequest(origin[c1].request)
        /\ origin[c1].request.session_id # origin[c2].request.session_id
        /\ Fingerprint(origin[c1].request) = Fingerprint(origin[c2].request)
        /\ origin[c1].id \in approvedBy
        /\ Fingerprint(origin[c1].request) \in sessionApprovals[origin[c1].request.session_id]
        /\ origin[c1].id < origin[c2].id
        /\ origin[c2].id \notin approvedBy
        /\ origin[c2].id \in posted

\* the same JSON object: the same keys with the same values
SameInput(a, b) ==
    /\ Keys(a) = Keys(b)
    /\ \A k \in Keys(a) : Lookup(a, k) = Lookup(b, k)

DifferentAction(r1, r2) ==
    r1.tool_name # r2.tool_name \/ ~SameInput(r1.tool_input, r2.tool_input)

\* C18: two ActionApproval requests the daemon has handled that differ in the
\* tool name or anywhere in tool_input have different fingerprints; the later
\* one is not attached to the earlier one as its duplicate, and it is
\* answered from the cache only if an approve signal was recorded for a
\* request with its own tool name and tool_input
C18_ExactMatching ==
    \A c1, c2 \in Conns :
        ( /\ Submitted(c1) /\ Submitted(c2)
          /\ IsActionApproval(c1) /\ IsActionApproval(c2)
          /\ DifferentAction(origin[c1].request, origin[c2].request) )
        => /\ Fingerprint(origin[c1].request) # Fingerprint(origin[c2].request)
           /\ ~(origin[c2].how = "attach" /\ origin[c2].id = origin[c1].id)
           /\ origin[c2].how = "cache" =>
                 \E id \in approvedBy :
                     ~DifferentAction(heap[id].request, origin[c2].request)

\* the gateway's catch block answered connection c
Rejected(c) == origin[c].how \in {"malformed", "threw"}

\* C19: the step that takes a frame that fails to parse, or a request whose
\* handling throws, writes the one line {decision:"deny"} to its connection
\* and ends it, and changes nothing else of the daemon: the pending registry,
\* the session cache, the suspended handlers and the other connections are
\* as before; and no later step writes to that connection again
C19_RejectedFrameDeniedOnce ==
    [][ \A c \in Conns :
            /\ (~Rejected(c) /\ Rejected(c)') =>
                   /\ wire[c] = <<>> /\ wire'[c] = <<FallbackDeny>>
                   /\ sock'[c] = "ended"
                   /\ UNCHANGED <<pendingRequests, heap, tsToPendingId, sessionApprovals,
                                  tasks, closeListeners>>
                   /\ \A d \in Conns \ {c} : wire'[d] = wire[d] /\ sock'[d] = sock[d]
            /\ Rejected(c) => (Rejected(c)' /\ wire'[c] = wire[c] /\ sock'[c] # "open") ]_vars

\* a request whose handling threw was denied while an approved request was
\* still in the registry, which was answered afterwards
C19_Witness ==
    \E c1, c2 \in Conns :
        /\ origin[c1].how = "new" /\ origin[c1].id \in approvedBy
        /\ origin[c2].how = "threw" /\ origin[c2].at >= origin[c1].at
        /\ wire[c2] = <<FallbackDeny>> /\ sock[c2] \in {"ended", "closed"}
        /\ Fingerprint(origin[c1].request) \in sessionApprovals[origin[c1].request.session_id]
        /\ wire[c1] = <<PermissionRequestOutput("allow", "-")>>

\* C20: on every connection the gateway has called the request handler at
\* most once
C20_HandlerCalledAtMostOnce ==
    \A c \in Conns : onRequestCalls[c] <= 1

\* C21: the shutdown steps are started at most once, however many SIGINT and
\* SIGTERM signals the process receives
C21_ShutdownRunsOnce ==
    proc.shutdownCalls <= 1

\* {hookSpecificOutput: {hookEventName: 'PermissionRequest', decision:
\* {behavior, message?}}} with the message present on deny only
PermissionRequestShaped(output) ==
    /\ output.hookEventName = "PermissionRequest"
    /\ output.decision \in {"allow", "deny"}
    /\ output.message # "-" <=> output.decision = "deny"
    /\ output.reason = "-" /\ ~output.updatedInput

\* {hookSpecificOutput: {hookEventName: 'PreToolUse', permissionDecision, ...}}
PreToolUseShaped(output) ==
    /\ output.hookEventName = "PreToolUse"
    /\ output.decision \in {"allow", "deny"}
    /\ output.message = "-" /\ output.reason # "-"

\* C22: every line written to a connection whose request was parsed and
\* handled has the shape of the request's kind: PermissionRequest-shaped for
\* an ActionApproval, PreToolUse-shaped for an OpenQuestion; and the line of
\* a cache hit equals the allow line a connection got after an approve signal
C22_ReplyShapeFollowsKind ==
    /\ \A c \in Conns : \A i \in DOMAIN wire[c] :
           Submitted(c) =>
               IF isQuestionRequest(origin[c].request)
               THEN PreToolUseShaped(wire[c][i])
               ELSE PermissionRequestShaped(wire[c][i])
    /\ \A c1, c2 \in Conns :
           ( /\ origin[c1].how = "cache" /\ origin[c2].how \in {"new", "attach"}
             /\ origin[c2].id \in approvedBy
             /\ wire[c2] # <<>> /\ wire[c2][1].decision = "allow" )
           => wire[c1] = wire[c2]

\* an approved request answered allow, and the same request answered from the
\* cache afterwards
C22_Witness ==
    \E c1, c2 \in Conns :
        /\ origin[c2].how = "cache" /\ origin[c1].how = "new"
        /\ origin[c1].id \in approvedBy
        /\ Len(wire[c1]) = 1 /\ wire[c1][1].decision = "allow"
        /\ Len(wire[c2]) = 1

\* this step is the run of the handler of a reaction that is in neither
\* reaction set, or of a message whose text is in neither vocabulary
UnrecognizedSignal ==
    \/ \E ts \in posted, r \in Reactions \ (ApproveReactions \cup DenyReactions) :
           ReactionAdded(ts, r)
    \/ \E ts \in posted \cup {NoTs}, ch \in Channels,
          x \in Texts \ (ApproveTexts \cup DenyTexts) : MessageReceived(ts, ch, x)

\* C23: the run of the handler of an unrecognized reaction or text changes
\* nothing: no reply is written, no handler is left suspended, and the
\* registry, the session cache and the connections are as before
C23_UnrecognizedSignalIgnored ==
    [][ daemonState' # daemonState => ~UnrecognizedSignal ]_vars

\* an unrecognized signal was ignored for a tool approval that is pending
\* with its prompt posted and its connection open and unanswered
C23_Witness ==
    \E c \in Conns :
        /\ origin[c].how = "new" /\ ~isQuestionRequest(origin[c].request)
        /\ dropped = origin[c].id
        /\ origin[c].id \in pendingRequests \cap posted
        /\ wire[c] = <<>> /\ sock[c] = "open"
        /\ tasks = {}

\* this step is the run of a reaction handler or of a message handler
ReactionOrMessage ==
    \/ \E ts \in posted, r \in Reactions : ReactionAdded(ts, r)
    \/ \E ts \in posted \cup {NoTs}, ch \in Channels, x \in Texts : MessageReceived(ts, ch, x)

\* C24: the run of a reaction handler or of a message handler leaves every
\* pending question as it is: it stays in the registry with the answers it
\* had, no handler run is started for it, and nothing is written to the
\* connections that wait for it
C24_ReactionsAndTextsSpareQuestions ==
    [][ (daemonState' # daemonState /\ ReactionOrMessage) =>
            \A id \in pendingRequests :
                heap[id].isQuestion =>
                    /\ id \in pendingRequests'
                    /\ heap'[id] = heap[id]
                    /\ \A t \in tasks' \ tasks : t.id # id
                    /\ \A c \in AttachedTo(id) : wire'[c] = wire[c] /\ sock'[c] = sock[c] ]_vars

\* a reaction or a message was ignored for a question that is pending with
\* its prompt posted, while a tool approval was resolved by one
C24_Witness ==
    \E c1, c2 \in Conns :
        /\ origin[c1].how = "new" /\ isQuestionRequest(origin[c1].request)
        /\ dropped = origin[c1].id
        /\ origin[c1].id \in pendingRequests \cap posted
        /\ wire[c1] = <<>> /\ sock[c1] = "open"
        /\ origin[c2].how = "new" /\ ~isQuestionRequest(origin[c2].request)
        /\ wire[c2] # <<>>

\* handleRequest takes request r from connection c in this step, and the
\* dedup index holds an entry for r that was recorded DEDUP_WINDOW_MS ago or
\* earlier
HandledAfterWindow(c, r) ==
    /\ origin[c].how = "none" /\ origin'[c].how \in {"attach", "cache", "new", "empty"}
    /\ origin'[c].request = r
    /\ DedupHash(r) \in DOMAIN recentRequestHashes
    /\ now - recentRequestHashes[DedupHash(r)].timestamp >= DEDUP_WINDOW_MS

\* the sweep deletes every dedup entry older than the window
SweepDropsOldEntries ==
    lastSweep' # lastSweep =>
        \A h \in DOMAIN recentRequestHashes :
            now - recentRequestHashes[h].timestamp > DEDUP_WINDOW_MS
                => h \notin DOMAIN recentRequestHashes'

\* C25: a request submitted DEDUP_WINDOW_MS or more after the dedup entry of
\* an identical request was recorded is handled as a new request: it gets an
\* id of its own and handleRequest goes on to post a prompt for it, whether
\* or not the earlier request is still pending; and the sweep deletes every
\* dedup entry older than the window
C25_ExpiredEntryNewPrompt ==
    [][ /\ \A c \in Conns, r \in Requests :
              HandledAfterWindow(c, r) =>
                  /\ origin'[c].how = "new" /\ origin'[c].id = nextId
                  /\ \E t \in tasks' \ tasks : t.pc = "post" /\ t.id = nextId
        /\ SweepDropsOldEntries ]_vars

\* C25 (amended): such a request is never attached to the earlier one: it
\* gets an id of its own, and handleRequest goes on to post a prompt for it
\* unless it answers at once from the session cache or, for a question
\* without questions, with the empty reply; and the sweep deletes every
\* dedup entry older than the window
C25_ExpiredEntryNeverUsed ==
    [][ /\ \A c \in Conns, r \in Requests :
              HandledAfterWindow(c, r) =>
                  /\ origin'[c].how \in {"new", "cache", "empty"}
                  /\ origin'[c].id = nextId /\ nextId' = nextId + 1
                  /\ recentRequestHashes'[DedupHash(r)] = [requestId |-> nextId, timestamp |-> now]
                  /\ origin'[c].how = "new" =>
                        \E t \in tasks' \ tasks : t.pc = "post" /\ t.id = nextId
        /\ SweepDropsOldEntries ]_vars

\* two identical requests submitted exactly DEDUP_WINDOW_MS apart are both
\* pending, each under its own id, and the later one has its own prompt
C25_Witness ==
    \E c1, c2 \in Conns :
        /\ origin[c1].how = "new" /\ origin[c2].how = "new"
        /\ origin[c1].request = origin[c2].request
        /\ origin[c2].at - origin[c1].at = DEDUP_WINDOW_MS
        /\ origin[c1].id # origin[c2].id
        /\ {origin[c1].id, origin[c2].id} \subseteq pendingRequests
        /\ origin[c2].id \in posted

\* the hook client has ended a run that was to carry a permission request
\* (or whose stdin it could not parse) to the daemon
PermissionRunEnded == hook.pc = "exited" /\ hook.kind \in {"permission", "unparsable"}

\* the run got a reply: sendRequest resolved with the parsed first line
ReplyObtained == hook.received \in DaemonLines

\* C26: a run for a permission request that ended without a reply from the
\* daemon (the daemon did not get ready, the socket failed, timed out or
\* closed before a line, the line or stdin was no JSON) printed exactly
\* {decision:'deny'} and exited with a non-zero code; and no run printed an
\* allow line other than the line it received from the daemon
C26_NoReplyMeansDeny ==
    /\ (PermissionRunEnded /\ ~ReplyObtained) =>
            /\ hook.stdout = <<FallbackDeny>>
            /\ hook.exitCode # 0
    /\ hook.kind \in {"permission", "unparsable"} =>
            \A i \in DOMAIN hook.stdout :
                hook.stdout[i].decision = "allow" => hook.stdout[i] = hook.received

\* a run for a permission request that waited, found no daemon, spawned one,
\* and read a line that was no JSON
C26_Witness ==
    /\ PermissionRunEnded /\ hook.kind = "permission"
    /\ hook.spawned /\ hook.elapsed > 0
    /\ hook.received = UnparsableLine
    /\ hook.stdout = <<FallbackDeny>> /\ hook.exitCode = 1

DaemonContacted == hook.kind = "permission" /\ hook.contactedAt # -1

\* C28: a run for a permission request with a delay above 0 turns to the
\* daemon only when the delay has elapsed or, with
\* notify-immediately-on-lock enabled, when a check during the wait found
\* the screen locked; with the option disabled it turns to the daemon only
\* when the whole delay has elapsed; with delay 0 it does so without waiting
C28_DaemonContactedAfterDelay ==
    DaemonContacted =>
        /\ hook.delay > 0 =>
               \/ hook.contactedAt >= hook.delay
               \/ hook.checkLock /\ hook.lockObserved
        /\ ~hook.checkLock => (~hook.lockObserved /\ hook.contactedAt >= hook.delay)
        /\ hook.delay = 0 => (hook.contactedAt = 0 /\ ~hook.lockObserved)

\* a run with a delay of two seconds that found the screen locked at its
\* second check and turned to the daemon then
C28_Witness ==
    /\ DaemonContacted
    /\ hook.delay = 2000 /\ hook.checkLock /\ hook.lockObserved
    /\ hook.contactedAt = LOCK_CHECK_INTERVAL

\* ensureServerRunning found a PID file that names no running process: its
\* content is no process id, or the id of a process that is not alive
StaleMarker ==
    /\ hook.contactedAt # -1 /\ hook.markerFound
    /\ ~IsPid(hook.marker) \/ parseInt(hook.marker) \notin hook.alive

\* ensureServerRunning found a PID file with the id of a running process
LiveMarker ==
    /\ hook.contactedAt # -1 /\ hook.markerFound
    /\ IsPid(hook.marker) /\ parseInt(hook.marker) \in hook.alive

\* C29: for a PID file that names no running process getRunningServerPid
\* returns null, as for no PID file, and the launcher spawns a daemon; for a
\* PID file with the id of a running process it returns that id and the
\* launcher spawns nothing
C29_StaleMarkerIsAbsent ==
    /\ StaleMarker => (hook.running.null /\ hook.spawned)
    /\ LiveMarker =>
            /\ ~hook.running.null /\ hook.running.pid = parseInt(hook.marker)
            /\ ~hook.spawned

\* C30: no request is answered from the session approval cache when the
\* session whose id it carries has ended
C30_EndedSessionNotAutoAllowed ==
    [][ \A c \in Conns :
            (origin[c].how = "none" /\ origin'[c].how = "cache")
                => origin'[c].request.session_id \notin endedSessions ]_vars

\* C31: shutdown stops accepting connections before it closes the Slack
\* session: from the call of slackApp.stop() on, no connection is accepted
\* and handed to handleRequest
C31_NoAcceptOnceChannelCloses ==
    [][ proc.stopping > 0 =>
            \A c \in Conns : origin[c].how = "none" => origin'[c].how = "none" ]_vars

\* the pending requests that are no questions and whose prompt is in the channel
PendingIn(channel) ==
    {id \in pendingRequests : heap[id].slackChannel = channel /\ ~heap[id].isQuestion}

\* the one of them that was created last (request ids grow with time)
MostRecentPendingIn(channel) ==
    CHOOSE id \in PendingIn(channel) : \A other \in PendingIn(channel) : other <= id

\* C32: a message to the channel without thread_ts that carries an approve
\* or deny text is applied to the most recent of the pending requests that
\* are no questions and were published in that channel
C32_DirectMessageMostRecent ==
    [][ tasks' # tasks =>
            \A ch \in Channels, x \in Texts :
                MessageReceived(NoTs, ch, x) =>
                    \A t \in tasks' \ tasks : t.id = MostRecentPendingIn(ch) ]_vars

RECURSIVE SameObject(_, _)
\* two objects have the same keys with the same values, whatever the order
\* in which they list them, at every nesting level
SameObject(a, b) ==
    /\ Keys(a) = Keys(b)
    /\ Len(a) = Len(b)
    /\ \A k \in Keys(a) :
           LET va == Lookup(a, k)
               vb == Lookup(b, k)
           IN  /\ va.t = vb.t
               /\ IF va.t = "o" THEN SameObject(va.o, vb.o) ELSE va = vb

\* two permission requests of one session and tool whose inputs differ in
\* the order of their keys only
Reordered(r1, r2) ==
    /\ r1 # r2
    /\ r1.session_id = r2.session_id /\ r1.tool_name = r2.tool_name
    /\ SameObject(r1.tool_input, r2.tool_input)

\* C33: two permission requests with the same tool name whose inputs hold
\* the same keys and values in a different order have the same fingerprint;
\* in every state they find the same pending request to attach to and the
\* same session approval, and no two of them are pending under two ids
C33_KeyOrderInsensitive ==
    /\ \A r1, r2 \in OrderRequests :
           Reordered(r1, r2) =>
               /\ createRequestHash(r1.tool_name, r1.tool_input)
                      = createRequestHash(r2.tool_name, r2.tool_input)
               /\ ExistingPending(r1) = ExistingPending(r2)
               /\ CacheHit(r1) = CacheHit(r2)
    /\ \A c1, c2 \in Conns :
           ( /\ origin[c1].how = "new" /\ origin[c2].how = "new"
             /\ Reordered(origin[c1].request, origin[c2].request) )
           => ~(origin[c1].id \in pendingRequests /\ origin[c2].id \in pendingRequests)

\* a request, a reordering of it that was attached to it, both answered
\* allow after the approval, and a third reordering answered from the cache
C33_Witness ==
    \E c1, c2, c3 \in Conns :
        /\ origin[c1].how = "new" /\ origin[c2].how = "attach" /\ origin[c3].how = "cache"
        /\ origin[c2].id = origin[c1].id
        /\ Reordered(origin[c1].request, origin[c2].request)
        /\ Reordered(origin[c1].request, origin[c3].request)
        /\ Len(wire[c1]) = 1 /\ wire[c1] = wire[c2] /\ wire[c1][1].decision = "allow"
        /\ wire[c3] = <<cacheResponse>>

\* handleRequest takes up a request on connection c in this step
HandledNow(c) ==
    origin[c].how = "none" /\ origin'[c].how \in {"new", "attach", "cache", "empty"}

\* inside the dedup window the index entry of the request names a request
\* id that is not in the registry
IndexEntryDangling(request) ==
    LET h == DedupHash(request)
    IN  /\ h \in DOMAIN recentRequestHashes
        /\ WithinDedupWindow(recentRequestHashes[h].timestamp)
        /\ recentRequestHashes[h].requestId \notin pendingRequests

\* C34: a request that arrives inside the dedup window while the index
\* entry of its fingerprint names a request id that is not in the registry
\* is not attached: it gets a fresh id, which the index entry is overwritten
\* with; a permission request found in the session cache is answered from
\* it, every other request is registered under the fresh id and its own
\* prompt is published (a question without questions is answered at once)
C34_DanglingIndexEntryMeansNew ==
    [][ \A c \in Conns :
            (HandledNow(c) /\ IndexEntryDangling(origin'[c].request)) =>
                LET r == origin'[c].request
                    id == origin'[c].id
                IN  /\ origin'[c].how # "attach"
                    /\ id = nextId /\ nextId' = nextId + 1
                    /\ id # recentRequestHashes[DedupHash(r)].requestId
                    /\ recentRequestHashes'[DedupHash(r)] = [requestId |-> id, timestamp |-> now]
                    /\ (origin'[c].how = "cache") = (~isQuestionRequest(r) /\ CacheHit(r))
                    /\ origin'[c].how = "new" =>
                           /\ id \in pendingRequests'
                           /\ \E t \in tasks' \ tasks : t.kind = "handleRequest" /\ t.id = id ]_vars

\* a request was denied, and the same request, sent again inside the window,
\* is pending under an id of its own, which the index entry names
C34_Witness ==
    \E c1, c2 \in Conns :
        /\ origin[c1].how = "new" /\ origin[c2].how = "new"
        /\ origin[c1].request = origin[c2].request
        /\ origin[c1].id < origin[c2].id
        /\ origin[c2].at - origin[c1].at < DEDUP_WINDOW_MS
        /\ origin[c1].id \notin pendingRequests
        /\ origin[c2].id \in pendingRequests /\ origin[c2].id \in posted
        /\ recentRequestHashes[DedupHash(origin[c2].request)].requestId = origin[c2].id

\* the connection is open, carried a request that was registered or
\* attached, and no reply line was written to it
Waiting(c) ==
    /\ sock[c] = "open"
    /\ origin[c].how \in {"new", "attach"}
    /\ wire[c] = <<>>

\* a PendingRequest in the registry holds the connection, as its socket or
\* among its additional sockets
ReferencedByRegistry(c) ==
    \E id \in pendingRequests :
        \/ heap[id].socket = c
        \/ \E i \in DOMAIN heap[id].additionalSockets : heap[id].additionalSockets[i] = c

\* C35: every open connection that submitted a valid request and was sent
\* no reply is held by a PendingRequest of the registry
C35_NoOrphanedWaiter ==
    \A c \in Conns : Waiting(c) => ReferencedByRegistry(c)

\* C36: a request whose fingerprint a signal has added to the session
\* approval cache is in no state still in the registry, and no connection
\* that waited for it was sent a deny line
C36_ApprovalAtomic ==
    \A id \in approvedBy :
        /\ id \notin pendingRequests
        /\ \A c \in AttachedTo(id) :
               \A i \in DOMAIN wire[c] : wire[c][i].decision # "deny"

\* the answer is a label that is not empty, or a list that is not empty
NonEmptyAnswer(answer) ==
    answer.kind # "none" /\ answer.labels # <<>> /\ answer.labels # <<"">>

\* C37: a connection that carried a question request with a question list
\* that is not empty has an allow line only if every question of the
\* request has a non-empty answer in the PendingRequest it was answered from
C37_AllowOnlyWhenAllAnswered ==
    \A c \in Conns :
        ( /\ origin[c].how \in {"new", "attach"}
          /\ isQuestionRequest(origin[c].request)
          /\ getQuestions(origin[c].request) # <<>>
          /\ \E i \in DOMAIN wire[c] : wire[c][i].decision = "allow" )
        => \A qi \in DOMAIN getQuestions(origin[c].request) :
               NonEmptyAnswer(heap[origin[c].id].answers[qi])

\* C38: of the launchers that run ensureServerRunning while no daemon is
\* alive at most one spawns a daemon, and the PID file and the socket path
\* of a daemon that is running are not taken over or removed by a daemon
\* that was started later
C38_AtMostOneDaemon ==
    /\ Cardinality({d \in Launchers : launch.daemons[d] # "none"}) <= 1
    /\ \A d \in Launchers :
           launch.daemons[d] = "listening" => (launch.sockFile = d /\ launch.pidFile = d)

\* the handler runs of terminal signals (button, reaction, thread reply,
\* direct message) that start or end in this step
TerminalRunsNow == {t \in (tasks' \ tasks) \cup (tasks \ tasks') : t.kind = "terminal"}

\* nothing but request a is touched in this step: lines are written and
\* sockets ended only on connections of a, and every other pending request
\* stays in the registry with its object and its message ts as they were
OnlyTouches(a) ==
    /\ \A c \in Conns :
           (wire'[c] # wire[c] \/ sock'[c] # sock[c]) => c \in SocketsOf(heap[a])
    /\ \A b \in pendingRequests \ {a} :
           /\ b \in pendingRequests'
           /\ heap'[b] = heap[b]
           /\ \A ts \in DOMAIN tsToPendingId :
                  tsToPendingId[ts] = b => (ts \in DOMAIN tsToPendingId' /\ tsToPendingId'[ts] = b)

\* C39: a handler run of a terminal signal for request A, where it starts
\* and where it sends the reply, writes and ends only connections of A and
\* leaves every other pending request, its connections and its answers as
\* they were
C39_ResolvingTouchesOneRequest ==
    [][ \A t \in TerminalRunsNow : OnlyTouches(t.id) ]_vars

\* two requests were pending with their prompts posted; one was approved and
\* its connection got the allow line, the other is pending and open
C39_Witness ==
    \E c1, c2 \in Conns :
        /\ origin[c1].how = "new" /\ origin[c2].how = "new"
        /\ origin[c1].id # origin[c2].id
        /\ origin[c1].id \in posted /\ origin[c2].id \in posted
        /\ origin[c1].id \notin pendingRequests /\ origin[c1].id \in approvedBy
        /\ wire[c1] = <<PermissionRequestOutput("allow", "-")>>
        /\ origin[c2].id \in pendingRequests
        /\ sock[c2] = "open" /\ wire[c2] = <<>>

\* C40: every entry of tsToPendingId names a request id that is in
\* pendingRequests
C40_NoDanglingTs ==
    \A ts \in DOMAIN tsToPendingId : tsToPendingId[ts] \in pendingRequests

====
